---- MODULE Spec2Model ----
(***************************************************************************)
(* Card journey tracker: the journey store (MongoDB collection             *)
(* card_journeys), the request handlers of services/cardService.js that    *)
(* write it (createCard, updateCardStatus), the retry route of             *)
(* routes/cards.js, the notifications they broadcast and the bottleneck    *)
(* analysis they schedule.                                                 *)
(*                                                                         *)
(* Every handler is an async function: the code between two awaits runs    *)
(* atomically on the Node event loop, a store operation runs atomically on *)
(* the document, and other requests interleave at every await.  Each       *)
(* request slot p therefore carries a position req[p].pc.                  *)
(*                                                                         *)
(* Time is counted in half minutes, so that Math.round(ms / 60000) has     *)
(* something to round.  The clock is read by the steps that call Date.now; *)
(* the time elapsed since the previous reading is an input of the step.    *)
(***************************************************************************)
EXTENDS Integers, Sequences, FiniteSets, TLC

VARIABLES store, req, now, ticks, calls, broadcasts, analysisTriggers,
          delayed, summaries, runs, calc, insights,
          connectedClients, readyState, received, search, client

vars == <<store, req, now, ticks, calls, broadcasts, analysisTriggers,
          delayed, summaries, runs, calc, insights,
          connectedClients, readyState, received, search, client>>

\* the collection bottleneck_analysis and the runs of analyzeBottlenecks
analysisVars == <<summaries, runs>>

\* what the request handlers of the journeys leave alone: the answer of the
\* last getDelayedCards query and the bottleneck analysis
reportVars == <<delayed, summaries, runs>>

\* the subscriber handles of the WebSocket server
fanoutVars == <<connectedClients, readyState, received>>

\* what the journeys, the queries and the analysis runs leave alone: the
\* analysis of a single group, the answer of generateInsights and the
\* subscribers, the answer of searchCards and the browser's WebSocket client
sideVars ==
  <<calc, insights, connectedClients, readyState, received, search, client>>

\* what the queries leave alone
requestVars == <<req, ticks, calls, analysisTriggers>>

(***************************************************************************)
(* Bounds of the model.                                                    *)
(***************************************************************************)
MaxCalls == 2
MaxTicks == 1

Procs == {"p1", "p2"}
AnalysisProcs == {"a1", "a2"}
CardIds == {"CRD1", "CRD2"}
StoredCardIds == {"CRD1"}
Handles == {"w1", "w2", "w3"}

(***************************************************************************)
(* Values of the program.                                                  *)
(***************************************************************************)
NoValue == "none"
NoDoc == [absent |-> TRUE]
NoTime == -1
NoDuration == -1

\* no query has been answered yet
NoAnswer == [asked |-> FALSE]

\* no group is being analysed
NoCalc == [pc |-> "none"]

\* generateInsights has not been called
NoInsights == [pc |-> "idle"]

\* no searchCards has been called
NoSearch == [pc |-> "idle"]

\* no WebSocketProvider is mounted
NoClient == [status |-> "unmounted"]

StageEnum ==
  {"APPROVED", "QUEUED_FOR_EMBOSSING", "IN_EMBOSSING", "EMBOSSING_COMPLETE",
   "EMBOSSING_FAILED", "DISPATCHED", "IN_TRANSIT", "OUT_FOR_DELIVERY",
   "DELIVERED", "DELIVERY_FAILED", "RETURNED", "DESTROYED"}

InitialStage == "USER_CREATED"

SchemaDefaultStatus == "APPROVED"

DelayTriggerMinutes == 480

\* calculateEstimatedDelivery: the base hours of the default priority
EstimatedDeliveryHours == 96

\* a status that the request body gives as a JSON number: truthy, cast to a
\* string by the store's update, but without the method includes
NumberStatus == "5"

HasIncludes(status) == status # NumberStatus

\* status.includes('FAILED'), over the status strings of the model
ContainsFAILED(status) == status \in {"EMBOSSING_FAILED", "DELIVERY_FAILED"}

\* Math.round(duration / (1000 * 60)) for a duration d in half minutes:
\* an exact half rounds up
RoundMinutes(d) == (d + 1) \div 2

(***************************************************************************)
(* Inputs of the requests.                                                 *)
(***************************************************************************)
StatusInputs ==
  {"QUEUED_FOR_EMBOSSING", "EMBOSSING_FAILED", "DELIVERED", NumberStatus, NoValue}
SourceInputs == {"webhook", NoValue}
ReasonInputs == {NoValue, "reason_a"}
ElapsedInputs == {0, 961}

\* the request bodies: a failureReason comes with the failure stage and, as
\* a stray field, with one stage that is no failure
StatusDataInputs ==
  {sd \in [status : StatusInputs, source : SourceInputs, failureReason : ReasonInputs] :
     sd.failureReason # NoValue
       => /\ sd.status \in {"QUEUED_FOR_EMBOSSING", "EMBOSSING_FAILED"}
          /\ sd.source # NoValue}

CardDataInputs ==
  [cardId : CardIds, required : BOOLEAN]

(***************************************************************************)
(* Documents.                                                              *)
(***************************************************************************)
JourneyEvent(stage, timestamp, previousStage, failureReason, durationMinutes, readIdx) ==
  [stage |-> stage, timestamp |-> timestamp, previousStage |-> previousStage,
   failureReason |-> failureReason, durationMinutes |-> durationMinutes,
   readIdx |-> readIdx]

\* new CardJourney({... currentStatus, journey: [{stage ...}] }) with the
\* schema defaults (retryCount 0, event timestamp Date.now)
\* priority STANDARD, an address of a tier-1 city (location multiplier 1.0)
\* and createdAt from the schema option timestamps
NewCardJourney(cardId, stage, t) ==
  [cardId |-> cardId,
   customerId |-> <<"customer", cardId>>,
   priority |-> "STANDARD",
   estimatedDelivery |-> t + EstimatedDeliveryHours * 120,
   createdAt |-> t,
   currentStatus |-> stage,
   journey |-> <<JourneyEvent(stage, t, NoValue, NoValue, NoDuration, 0)>>,
   retryCount |-> 0,
   failureReason |-> NoValue,
   actualDelivery |-> NoTime]

\* the enum validators that save() runs on currentStatus and journey.stage
SaveValidates(doc) ==
  /\ doc.currentStatus \in StageEnum
  /\ \A i \in 1..Len(doc.journey) : doc.journey[i].stage \in StageEnum

\* no analyzeBottlenecks is running in the slot
IdleRun ==
  [pc |-> "idle", sevenDaysAgo |-> NoTime, results |-> <<>>, today |-> NoTime,
   idx |-> 0, seen |-> FALSE, outcome |-> NoValue]

IdleReq ==
  [kind |-> "none", pc |-> "idle", cardId |-> NoValue, status |-> NoValue,
   source |-> NoValue, failureReason |-> NoValue, previousStatus |-> NoValue,
   lastTs |-> NoTime, readIdx |-> 0, durationMinutes |-> NoDuration,
   eventTs |-> NoTime, result |-> NoValue,
   wrote |-> FALSE, notified |-> FALSE, triggered |-> FALSE,
   apiKey |-> NoValue]

Free(p) == req[p].pc \in {"idle", "done"}

\* a handler that has returned or thrown keeps none of its locals: what is
\* left of the request is its outcome
Return(r, outcome) ==
  [IdleReq EXCEPT !.kind = r.kind, !.pc = "done", !.cardId = r.cardId,
                  !.result = outcome, !.wrote = r.wrote,
                  !.notified = r.notified, !.triggered = r.triggered,
                  !.apiKey = r.apiKey]

Fail(r, error) == Return(r, error)

(***************************************************************************)
(* Initial state: the collection outlives the server process; it holds a   *)
(* journey that satisfies the schema, with its single first event, for the *)
(* stored card ids and nothing for the others.  No request is in flight.   *)
(***************************************************************************)
Init ==
  /\ store = [c \in CardIds |-> IF c \in StoredCardIds
                                   THEN NewCardJourney(c, SchemaDefaultStatus, 0)
                                   ELSE NoDoc]
  /\ req = [p \in Procs |-> IdleReq]
  /\ now = 0
  /\ ticks = 0
  /\ calls = 0
  /\ broadcasts = <<>>
  /\ analysisTriggers = 0
  /\ delayed = NoAnswer
  /\ summaries = <<>>
  /\ runs = [a \in AnalysisProcs |-> IdleRun]
  /\ calc = NoCalc
  /\ insights = NoInsights
  /\ connectedClients = {}
  /\ readyState = [h \in Handles |-> "CLOSED"]
  /\ received = [h \in Handles |-> <<>>]
  /\ search = NoSearch
  /\ client = NoClient

(***************************************************************************)
(* The store's update operators.                                           *)
(***************************************************************************)
\* updateData of updateCardStatus for a request r: currentStatus, $push of
\* the new event, failureReason and $inc only when a failureReason was
\* given, actualDelivery only when status is DELIVERED
UpdateData(r) ==
  [currentStatus |-> r.status,
   push |-> JourneyEvent(r.status, r.eventTs, r.previousStatus,
                         r.failureReason, r.durationMinutes, r.readIdx),
   setFailureReason |-> r.failureReason # NoValue,
   failureReason |-> r.failureReason,
   incRetryCount |-> IF r.failureReason # NoValue THEN 1 ELSE 0,
   setActualDelivery |-> r.status = "DELIVERED",
   actualDelivery |-> r.eventTs]

\* the update without its currentStatus assignment
ApplyUpdateKeepStatus(doc, upd) ==
  [doc EXCEPT
     !.currentStatus = doc.currentStatus,
     !.journey = Append(doc.journey, upd.push),
     !.retryCount = doc.retryCount + upd.incRetryCount,
     !.failureReason = IF upd.setFailureReason THEN upd.failureReason
                       ELSE doc.failureReason,
     !.actualDelivery = IF upd.setActualDelivery THEN upd.actualDelivery
                        ELSE doc.actualDelivery]

\* the update with the new event put in front of the stored ones
ApplyUpdateUnshift(doc, upd) ==
  [doc EXCEPT
     !.currentStatus = upd.currentStatus,
     !.journey = <<upd.push>> \o doc.journey,
     !.retryCount = doc.retryCount + upd.incRetryCount,
     !.failureReason = IF upd.setFailureReason THEN upd.failureReason
                       ELSE doc.failureReason,
     !.actualDelivery = IF upd.setActualDelivery THEN upd.actualDelivery
                        ELSE doc.actualDelivery]

\* the update applied to the matched document, atomically
\* ($set of the named fields, $push on journey, $inc on retryCount; every
\* other field of the document keeps its value)
ApplyUpdate(doc, upd) ==
  [doc EXCEPT
     !.currentStatus = upd.currentStatus,
     !.journey = Append(doc.journey, upd.push),
     !.retryCount = doc.retryCount + upd.incRetryCount,
     !.failureReason = IF upd.setFailureReason THEN upd.failureReason
                       ELSE doc.failureReason,
     !.actualDelivery = IF upd.setActualDelivery THEN upd.actualDelivery
                        ELSE doc.actualDelivery]

\* CardJourney.findOneAndUpdate({ cardId }, updateData, { new: true }):
\* no upsert, no validators
FindOneAndUpdate(doc, upd) ==
  IF doc = NoDoc THEN NoDoc ELSE ApplyUpdate(doc, upd)

(***************************************************************************)
(* updateCardStatus(cardId, statusData)                                    *)
(***************************************************************************)
\* entry: field validation, then the findOne is issued
UpdateEntry(r, cardId, sd) ==
  LET r0 == [IdleReq EXCEPT !.kind = r.kind, !.cardId = cardId,
                            !.status = sd.status, !.source = sd.source,
                            !.failureReason = sd.failureReason,
                            !.apiKey = r.apiKey]
  IN IF sd.status = NoValue \/ sd.source = NoValue
       THEN Fail(r0, "MissingFields")
       ELSE [r0 EXCEPT !.pc = "findOne"]

\* findOne without the check of its result: a missing card goes on as a
\* journey without events
FindOneResultNoCheck(r, doc) ==
  IF doc = NoDoc
    THEN [r EXCEPT !.pc = "build"]
    ELSE [r EXCEPT !.pc = "build",
                   !.previousStatus = doc.currentStatus,
                   !.readIdx = Len(doc.journey),
                   !.lastTs = IF Len(doc.journey) = 0 THEN NoTime
                              ELSE doc.journey[Len(doc.journey)].timestamp]

\* the result of CardJourney.findOne({ cardId }): not found, or the
\* snapshot of the current status and of the last event
FindOneResult(r, doc) ==
  IF doc = NoDoc
    THEN Fail(r, "NotFound")
    ELSE [r EXCEPT !.pc = "build",
                   !.previousStatus = doc.currentStatus,
                   !.readIdx = Len(doc.journey),
                   !.lastTs = IF Len(doc.journey) = 0 THEN NoTime
                              ELSE doc.journey[Len(doc.journey)].timestamp]

\* The entry reads and writes nothing but the request's own fields, so it
\* commutes with every step of every other request: it is taken together
\* with the store's answer to the findOne it issues.
UpdateCardStatus(p, cardId, sd) ==
  /\ Free(p)
  /\ calls < MaxCalls
  /\ calls' = calls + 1
  /\ LET r == UpdateEntry([IdleReq EXCEPT !.kind = "update"], cardId, sd)
     IN req' = [req EXCEPT ![p] = IF r.pc = "findOne"
                                    THEN FindOneResult(r, store[cardId])
                                    ELSE r]
  /\ UNCHANGED <<store, now, ticks, broadcasts, analysisTriggers>>
  /\ UNCHANGED reportVars
  /\ UNCHANGED sideVars

\* the findOne of an updateCardStatus called by the retry route
FindOne(p) ==
  /\ req[p].pc = "findOne"
  /\ req' = [req EXCEPT ![p] = FindOneResult(req[p], store[req[p].cardId])]
  /\ UNCHANGED <<store, now, ticks, calls, broadcasts, analysisTriggers>>
  /\ UNCHANGED reportVars
  /\ UNCHANGED sideVars

\* Date.now(): the clock has advanced by dt since it was last read
Elapse(dt) ==
  /\ dt = 0 \/ ticks < MaxTicks
  /\ ticks' = IF dt = 0 THEN ticks ELSE ticks + 1
  /\ now' = now + dt

\* the continuation after findOne: the duration since the last event that
\* was read, the new event and the update, at the current time
BuildUpdate(p, dt) ==
  /\ req[p].pc = "build"
  /\ Elapse(dt)
  /\ req' = [req EXCEPT ![p].pc = "write",
                        ![p].durationMinutes =
                           IF req[p].lastTs = NoTime THEN NoDuration
                           ELSE RoundMinutes(now' - req[p].lastTs),
                        ![p].eventTs = now']
  /\ UNCHANGED <<store, calls, broadcasts, analysisTriggers>>
  /\ UNCHANGED reportVars
  /\ UNCHANGED sideVars

\* the store applies the findOneAndUpdate
WriteUpdate(p) ==
  /\ req[p].pc = "write"
  /\ store' = [store EXCEPT ![req[p].cardId] =
                 FindOneAndUpdate(store[req[p].cardId], UpdateData(req[p]))]
  /\ req' = [req EXCEPT ![p].pc = "notify", ![p].wrote = TRUE]
  /\ UNCHANGED <<now, ticks, calls, broadcasts, analysisTriggers>>
  /\ UNCHANGED reportVars
  /\ UNCHANGED sideVars

\* the message broadcast by the continuation after the store write
Notification(r) ==
  IF r.kind = "create"
    THEN [type |-> "card_created", cardId |-> r.cardId,
          previousStatus |-> NoValue, newStatus |-> r.status]
    ELSE [type |-> "status_updated", cardId |-> r.cardId,
          previousStatus |-> r.previousStatus, newStatus |-> r.status]

Notify(p) ==
  /\ req[p].pc = "notify"
  /\ broadcasts' = Append(broadcasts, Notification(req[p]))
  /\ req' = [req EXCEPT ![p].pc = "sms", ![p].notified = TRUE]
  /\ UNCHANGED <<store, now, ticks, calls, analysisTriggers>>
  /\ UNCHANGED reportVars
  /\ UNCHANGED sideVars

\* status.includes('FAILED') || durationMinutes > 480
TriggersAnalysisFailedOnly(r) ==
  /\ r.kind # "create"
  /\ ContainsFAILED(r.status)

TriggersAnalysis(r) ==
  /\ r.kind # "create"
  /\ \/ ContainsFAILED(r.status)
     \/ r.durationMinutes > DelayTriggerMinutes

\* after the SMS attempt (its failure is swallowed): the analysis is
\* scheduled with setImmediate and the handler returns
\* the SMS has been awaited (its failure is caught); status.includes throws
\* a TypeError for a status that is no string, otherwise the analysis is
\* scheduled where due and the call returns
Finish(p) ==
  /\ req[p].pc = "sms"
  /\ IF req[p].kind # "create" /\ ~HasIncludes(req[p].status)
       THEN /\ req' = [req EXCEPT ![p] = Fail(req[p], "TypeError")]
            /\ UNCHANGED analysisTriggers
       ELSE /\ analysisTriggers' = analysisTriggers + (IF TriggersAnalysis(req[p]) THEN 1 ELSE 0)
            /\ req' = [req EXCEPT ![p] =
                         Return([req[p] EXCEPT !.triggered = TriggersAnalysis(req[p])], "OK")]
  /\ UNCHANGED <<store, now, ticks, calls, broadcasts>>
  /\ UNCHANGED reportVars
  /\ UNCHANGED sideVars

(***************************************************************************)
(* PUT /:cardId/retry                                                      *)
(***************************************************************************)
\* the retry destination of a failed status, NoValue when there is none
RetryStatus(currentStatus) ==
  IF currentStatus = "EMBOSSING_FAILED" THEN "QUEUED_FOR_EMBOSSING"
  ELSE IF currentStatus = "DELIVERY_FAILED" THEN "OUT_FOR_DELIVERY"
  ELSE NoValue

\* getCardById, the failed-state checks and the call of updateCardStatus
RetryGetResult(r, doc) ==
  IF doc = NoDoc THEN Fail(r, "NotFound")
  ELSE IF ~ContainsFAILED(doc.currentStatus) THEN Fail(r, "NotFailed")
  ELSE IF RetryStatus(doc.currentStatus) = NoValue THEN Fail(r, "NoRetryStatus")
  ELSE UpdateEntry(r, r.cardId,
                   [status |-> RetryStatus(doc.currentStatus),
                    source |-> "manual_retry", failureReason |-> NoValue])

\* the route up to the findOne that its updateCardStatus issues: the
\* store's answer to getCardById and the checks made on it
Retry(p, cardId) ==
  /\ Free(p)
  /\ calls < MaxCalls
  /\ calls' = calls + 1
  /\ req' = [req EXCEPT ![p] =
               RetryGetResult([IdleReq EXCEPT !.kind = "retry", !.cardId = cardId],
                              store[cardId])]
  /\ UNCHANGED <<store, now, ticks, broadcasts, analysisTriggers>>
  /\ UNCHANGED reportVars
  /\ UNCHANGED sideVars

(***************************************************************************)
(* createCard(cardData)                                                    *)
(***************************************************************************)
CreateCard(p, cd, dt) ==
  /\ Free(p)
  /\ Elapse(dt)
  /\ calls < MaxCalls
  /\ calls' = calls + 1
  /\ req' = [req EXCEPT ![p] =
               IF ~cd.required
                 THEN Fail([IdleReq EXCEPT !.kind = "create", !.cardId = cd.cardId],
                           "MissingFields")
                 ELSE [IdleReq EXCEPT !.kind = "create", !.pc = "save",
                                      !.cardId = cd.cardId,
                                      !.status = InitialStage, !.eventTs = now']]
  /\ UNCHANGED <<store, broadcasts, analysisTriggers>>
  /\ UNCHANGED reportVars
  /\ UNCHANGED sideVars

\* cardJourney.save(): schema validation, then the insert under the unique
\* index on cardId
Save(p) ==
  /\ req[p].pc = "save"
  /\ LET id == req[p].cardId
         doc == NewCardJourney(id, req[p].status, req[p].eventTs)
     IN IF ~SaveValidates(doc)
          THEN /\ req' = [req EXCEPT ![p] = Fail(req[p], "ValidationError")]
               /\ UNCHANGED store
          ELSE IF store[id] # NoDoc
            THEN /\ req' = [req EXCEPT ![p] = Fail(req[p], "DuplicateKey")]
                 /\ UNCHANGED store
            ELSE /\ store' = [store EXCEPT ![id] = doc]
                 /\ req' = [req EXCEPT ![p].pc = "notify", ![p].wrote = TRUE]
  /\ UNCHANGED <<now, ticks, calls, broadcasts, analysisTriggers>>
  /\ UNCHANGED reportVars
  /\ UNCHANGED sideVars

Next ==
  \/ \E p \in Procs, c \in CardIds, sd \in StatusDataInputs : UpdateCardStatus(p, c, sd)
  \/ \E p \in Procs : FindOne(p)
  \/ \E p \in Procs, dt \in ElapsedInputs : BuildUpdate(p, dt)
  \/ \E p \in Procs : WriteUpdate(p)
  \/ \E p \in Procs : Notify(p)
  \/ \E p \in Procs : Finish(p)
  \/ \E p \in Procs, c \in CardIds : Retry(p, c)
  \/ \E p \in Procs, cd \in CardDataInputs, dt \in ElapsedInputs : CreateCard(p, cd, dt)
  \/ \E p \in Procs : Save(p)

Spec == Init /\ [][Next]_vars

TypeOK ==
  /\ now \in Nat
  /\ calls \in 0..MaxCalls
  /\ \A c \in CardIds : store[c] = NoDoc \/ Len(store[c].journey) >= 1

(***************************************************************************)
(* getDelayedCards(thresholdHours): a query over the journey store.  It    *)
(* is a function of the store and of the clock; its specification draws    *)
(* both from bounded sets and applies the query.                           *)
(***************************************************************************)
ThresholdHoursInputs == {96, 24}
QueryTimeInputs == {14400}
CreatedAtInputs == {0, 2880, 12000}
DelayedStatusInputs == {"APPROVED", "DELIVERED", "DESTROYED", "RETURNED"}

\* currentStatus: { $nin: [...] }
NotDelayedStatuses == {"DELIVERED", "DESTROYED", "RETURNED"}

\* a journey created at createdAt which, unless it is still at its first
\* stage, has been updated to status one minute later
StoredJourney(cardId, status, createdAt) ==
  IF status = SchemaDefaultStatus
    THEN NewCardJourney(cardId, status, createdAt)
    ELSE ApplyUpdate(NewCardJourney(cardId, SchemaDefaultStatus, createdAt),
                     UpdateData([IdleReq EXCEPT
                                   !.cardId = cardId, !.status = status,
                                   !.previousStatus = SchemaDefaultStatus,
                                   !.readIdx = 1, !.eventTs = createdAt + 2,
                                   !.durationMinutes = RoundMinutes(2)]))

\* thresholdDate: the clock set back by thresholdHours
ThresholdDate(thresholdHours) == now - thresholdHours * 120

\* the filter with createdAt $lte thresholdDate
MatchesDelayedInclusive(doc, thresholdDate) ==
  /\ doc # NoDoc
  /\ doc.createdAt <= thresholdDate
  /\ doc.currentStatus \notin NotDelayedStatuses

\* the filter of the find: createdAt $lt thresholdDate, currentStatus $nin
MatchesDelayed(doc, thresholdDate) ==
  /\ doc # NoDoc
  /\ doc.createdAt < thresholdDate
  /\ doc.currentStatus \notin NotDelayedStatuses

\* .sort({ createdAt: 1 }): the orders of the card ids in S by ascending
\* createdAt; documents with equal createdAt come in any order
SortByCreatedAt(S) ==
  {s \in [1..Cardinality(S) -> S] :
     /\ \A i, j \in 1..Cardinality(S) : i # j => s[i] # s[j]
     /\ \A i, j \in 1..Cardinality(S) :
          i < j => store[s[i]].createdAt <= store[s[j]].createdAt}

GetDelayedCards(thresholdHours) ==
  /\ \E s \in SortByCreatedAt({c \in CardIds :
                                  MatchesDelayed(store[c], ThresholdDate(thresholdHours))}) :
       delayed' = [thresholdHours |-> thresholdHours, cards |-> s]
  /\ UNCHANGED <<store, now, broadcasts>>
  /\ UNCHANGED requestVars
  /\ UNCHANGED analysisVars
  /\ UNCHANGED sideVars

InitDelayed ==
  /\ \E st \in [CardIds -> DelayedStatusInputs \cup {NoValue}],
        cr \in [CardIds -> CreatedAtInputs] :
       store = [c \in CardIds |-> IF st[c] = NoValue THEN NoDoc
                                  ELSE StoredJourney(c, st[c], cr[c])]
  /\ now \in QueryTimeInputs
  /\ req = [p \in Procs |-> IdleReq]
  /\ ticks = 0
  /\ calls = 0
  /\ broadcasts = <<>>
  /\ analysisTriggers = 0
  /\ delayed = NoAnswer
  /\ summaries = <<>>
  /\ runs = [a \in AnalysisProcs |-> IdleRun]
  /\ calc = NoCalc
  /\ insights = NoInsights
  /\ connectedClients = {}
  /\ readyState = [h \in Handles |-> "CLOSED"]
  /\ received = [h \in Handles |-> <<>>]
  /\ search = NoSearch
  /\ client = NoClient

NextDelayed ==
  \E th \in ThresholdHoursInputs : GetDelayedCards(th)

SpecDelayed == InitDelayed /\ [][NextDelayed]_vars

(***************************************************************************)
(* analyzeBottlenecks (services/analyticsService.js): the aggregation      *)
(* pipeline over the journey store and what is computed from each of its   *)
(* groups.  The 95th percentile is left out: no property below reads it.   *)
(***************************************************************************)
WindowDays == 7
MinSampleSize == 5
AnalysisDelayMinutes == 480
MinAvgMinutes == 30
MaxRecommendations == 6

\* sevenDaysAgo.setDate(sevenDaysAgo.getDate() - 7), a day being 2880 half
\* minutes
SevenDaysAgo(t) == t - WindowDays * 2880

\* today.setHours(0, 0, 0, 0)
Midnight(t) == (t \div 2880) * 2880

\* $match on the card's createdAt, $unwind of journey and $match on
\* journey.durationMinutes, over the documents in the order the store
\* scans them
RECURSIVE UnwoundEvents(_, _)
UnwoundEvents(order, sevenDaysAgo) ==
  IF order = <<>>
    THEN <<>>
    ELSE LET doc == store[Head(order)]
             rest == UnwoundEvents(Tail(order), sevenDaysAgo)
         IN IF doc = NoDoc \/ doc.createdAt < sevenDaysAgo
              THEN rest
              ELSE SelectSeq(doc.journey, LAMBDA e : e.durationMinutes > 0) \o rest

\* the keys of the $group
EventStages(events) == {events[i].stage : i \in 1..Len(events)}

\* durations: { $push: "$journey.durationMinutes" } of the group of a stage
StageDurations(events, stage) ==
  LET es == SelectSeq(events, LAMBDA e : e.stage = stage)
  IN [i \in 1..Len(es) |-> es[i].durationMinutes]

\* the sum that $avg divides by the count, taken by halves
RECURSIVE SumSeq(_)
SumSeq(s) ==
  IF s = <<>> THEN 0
  ELSE IF Len(s) = 1 THEN s[1]
  ELSE SumSeq(SubSeq(s, 1, Len(s) \div 2))
       + SumSeq(SubSeq(s, Len(s) \div 2 + 1, Len(s)))

\* $round of num / den: an exact half goes to the even neighbour
RoundHalfEven(num, den) ==
  LET q == num \div den
      r == num % den
  IN IF 2 * r < den THEN q
     ELSE IF 2 * r > den THEN q + 1
     ELSE IF q % 2 = 0 THEN q ELSE q + 1

\* the first of the pushed durations in place of their minimum
MinDurationFirst(durations) == durations[1]

\* $min and $max of the group
MinDuration(durations) ==
  CHOOSE x \in {durations[i] : i \in 1..Len(durations)} :
    \A i \in 1..Len(durations) : x <= durations[i]

MaxDuration(durations) ==
  CHOOSE x \in {durations[i] : i \in 1..Len(durations)} :
    \A i \in 1..Len(durations) : x >= durations[i]

\* $size of the $filter of the durations above 8 hours
DelayedCount(durations) ==
  Len(SelectSeq(durations, LAMBDA d : d > AnalysisDelayMinutes))

\* the $switch with $gte in place of $gt
SeverityInclusive(delayedCount, count) ==
  IF 10 * delayedCount >= 3 * count THEN "critical"
  ELSE IF 10 * delayedCount >= 2 * count THEN "high"
  ELSE IF 10 * delayedCount >= count THEN "medium"
  ELSE "low"

\* the $switch on delayedCount / count against 0.3, 0.2 and 0.1
Severity(delayedCount, count) ==
  IF 10 * delayedCount > 3 * count THEN "critical"
  ELSE IF 10 * delayedCount > 2 * count THEN "high"
  ELSE IF 10 * delayedCount > count THEN "medium"
  ELSE "low"

\* the two $project stages for the group of a stage; delayPercentage, which
\* is rounded to one decimal place, is counted in tenths of a percent
StageAnalysisOf(stage, durations) ==
  [stage |-> stage,
   count |-> Len(durations),
   avgDuration |-> RoundHalfEven(SumSeq(durations), Len(durations)),
   maxDuration |-> MaxDuration(durations),
   minDuration |-> MinDuration(durations),
   delayedCount |-> DelayedCount(durations),
   delayPercentage |-> RoundHalfEven(1000 * DelayedCount(durations), Len(durations)),
   severity |-> Severity(DelayedCount(durations), Len(durations))]

\* $match: { avgDuration: { $gt: 30 } } on the rounded mean
Retained(sa) == sa.avgDuration > MinAvgMinutes

\* $group, $match count >= 5, $project, $match avgDuration > 30
StageAnalyses(events) ==
  {sa \in {StageAnalysisOf(st, StageDurations(events, st)) :
             st \in {g \in EventStages(events) :
                       Len(StageDurations(events, g)) >= MinSampleSize}} :
     Retained(sa)}

\* $sort: { delayPercentage: -1 }; groups of equal delayPercentage come in
\* any order
SortByDelayPercentage(S) ==
  {s \in [1..Cardinality(S) -> S] :
     /\ \A i, j \in 1..Cardinality(S) : i # j => s[i] # s[j]
     /\ \A i, j \in 1..Cardinality(S) :
          i < j => s[i].delayPercentage >= s[j].delayPercentage}

\* CardJourney.aggregate(pipeline): the answers the store can give
Aggregate(order, sevenDaysAgo) ==
  SortByDelayPercentage(StageAnalyses(UnwoundEvents(order, sevenDaysAgo)))

\* getStageSpecificRecommendations(stage, analysis)
StageSpecificRecommendations(sa) ==
  IF sa.stage = "QUEUED_FOR_EMBOSSING" THEN <<"facility_capacity", "batch_sizes">>
  ELSE IF sa.stage = "IN_EMBOSSING"
    THEN <<"equipment_efficiency", "operator_training">>
         \o (IF sa.avgDuration > 240 THEN <<"equipment_upgrade">> ELSE <<>>)
  ELSE IF sa.stage = "DISPATCHED" THEN <<"logistics_sla", "dispatch_routes">>
  ELSE IF sa.stage = "IN_TRANSIT" THEN <<"delivery_routes", "realtime_tracking">>
  ELSE IF sa.stage = "OUT_FOR_DELIVERY"
    THEN <<"delivery_attempts", "customer_communication">>
         \o (IF sa.delayPercentage > 200 THEN <<"address_validation">> ELSE <<>>)
  ELSE IF sa.stage = "DELIVERY_FAILED" THEN <<"address_verification", "retry_scheduling">>
  ELSE <<"monitor_stage">>

\* generateRecommendations with the volume message pushed first
GenerateRecommendationsVolumeFirst(sa) ==
  LET all ==
        (IF sa.count > 1000 THEN <<"high_volume">> ELSE <<>>)
        \o (IF sa.severity = "critical"
              THEN <<"critical_intervention", "critical_capacity", "critical_monitoring">>
            ELSE IF sa.severity = "high"
              THEN <<"high_attention", "high_workflow", "high_planning">>
            ELSE <<>>)
        \o (IF sa.delayPercentage > 500 THEN <<"process_redesign", "automation">>
            ELSE IF sa.delayPercentage > 250 THEN <<"procedures", "optimization">>
            ELSE <<>>)
        \o (IF sa.avgDuration > 1440 THEN <<"exceeds_24_hours">>
            ELSE IF sa.avgDuration > 480 THEN <<"exceeds_8_hours">>
            ELSE IF sa.avgDuration > 240 THEN <<"moderate_delays">>
            ELSE <<>>)
        \o StageSpecificRecommendations(sa)
  IN SubSeq(all, 1, IF Len(all) < MaxRecommendations THEN Len(all)
                    ELSE MaxRecommendations)

\* generateRecommendations(stageAnalysis): the messages by their kind, the
\* first 6 of them
GenerateRecommendations(sa) ==
  LET all ==
        (IF sa.severity = "critical"
           THEN <<"critical_intervention", "critical_capacity", "critical_monitoring">>
         ELSE IF sa.severity = "high"
           THEN <<"high_attention", "high_workflow", "high_planning">>
         ELSE <<>>)
        \o (IF sa.delayPercentage > 500 THEN <<"process_redesign", "automation">>
            ELSE IF sa.delayPercentage > 250 THEN <<"procedures", "optimization">>
            ELSE <<>>)
        \o (IF sa.avgDuration > 1440 THEN <<"exceeds_24_hours">>
            ELSE IF sa.avgDuration > 480 THEN <<"exceeds_8_hours">>
            ELSE IF sa.avgDuration > 240 THEN <<"moderate_delays">>
            ELSE <<>>)
        \o StageSpecificRecommendations(sa)
        \o (IF sa.count > 1000 THEN <<"high_volume">> ELSE <<>>)
  IN SubSeq(all, 1, IF Len(all) < MaxRecommendations THEN Len(all)
                    ELSE MaxRecommendations)

\* calculateMedian(stageData): Math.round((min + max) / 2)
CalculateMedian(sa) == (sa.minDuration + sa.maxDuration + 1) \div 2

\* the fields that the update of the upsert names
SummaryFields(sa) ==
  [avgDurationMinutes |-> sa.avgDuration,
   delayPercentage |-> sa.delayPercentage,
   affectedCount |-> sa.count,
   severity |-> sa.severity,
   recommendations |-> GenerateRecommendations(sa),
   totalSampleSize |-> sa.count,
   medianDurationMinutes |-> CalculateMedian(sa),
   metadata |-> [maxDuration |-> sa.maxDuration, minDuration |-> sa.minDuration]]

\* impactScore is not set
NoScore == -1

\* calculateImpactScore() of the model, in tenths of a point; the pre-save
\* hook calls it, and only save() runs the hook
CalculateImpactScore(fields) ==
  LET base == IF fields.delayPercentage < 400 THEN fields.delayPercentage ELSE 400
      affected == IF fields.affectedCount > 100 THEN 300
                  ELSE IF fields.affectedCount > 50 THEN 200
                  ELSE IF fields.affectedCount > 10 THEN 100
                  ELSE 0
      weight == IF fields.severity = "low" THEN 50
                ELSE IF fields.severity = "medium" THEN 150
                ELSE IF fields.severity = "high" THEN 250
                ELSE IF fields.severity = "critical" THEN 300
                ELSE 0
      score == base + affected + weight
  IN IF score < 1000 THEN score ELSE 1000

\* the document that the upsert inserts: the fields of the query and of the
\* update; the schema has no default for impactScore and findOneAndUpdate
\* runs no save hook
Summary(stage, analysisDate, fields) ==
  [stage |-> stage, analysisDate |-> analysisDate, fields |-> fields,
   impactScore |-> NoScore]

\* the documents of the collection that match { stage, analysisDate }
Matching(coll, stage, analysisDate) ==
  {i \in 1..Len(coll) :
     coll[i].stage = stage /\ coll[i].analysisDate = analysisDate}

\* the collection without a unique index
InsertAdmittedNoIndex(coll, stage, analysisDate) == TRUE

\* the unique index on { stage, analysisDate } admits the insert
InsertAdmitted(coll, stage, analysisDate) ==
  Matching(coll, stage, analysisDate) = {}

\* the update of the upsert adding the sample size to the stored one
UpdateSummaryAdding(doc, fields) ==
  [doc EXCEPT !.fields = [fields EXCEPT
                            !.affectedCount = doc.fields.affectedCount + fields.affectedCount]]

\* the update of the upsert on the matched document: the named fields are
\* set
UpdateSummary(doc, fields) == [doc EXCEPT !.fields = fields]

(***************************************************************************)
(* The runs of analyzeBottlenecks.  A run is started by the hourly cron    *)
(* job, by POST /analytics/analyze or by updateCardStatus; runs overlap at *)
(* their awaits.  The upsert of a summary is a query followed by an update *)
(* of the matched document or by an insert, which the unique index can     *)
(* reject when another run has inserted in between.                        *)
(***************************************************************************)
AnalysisElapsedInputs == {0, 720}

\* the orders in which the store can scan the journeys
ScanOrders ==
  {o \in [1..Cardinality(CardIds) -> CardIds] :
     \A i, j \in 1..Cardinality(CardIds) : i # j => o[i] # o[j]}

RunFree(a) == runs[a].pc \in {"idle", "done"}

\* a run that has returned or thrown keeps none of its locals: what is left
\* of it is how it ended
RunReturn(r, outcome) ==
  [IdleRun EXCEPT !.pc = "done", !.outcome = outcome]

\* the position of the $slice that takes the 95th percentile is
\* Math.floor("$count" * 0.95), which is NaN: a store that evaluates the
\* $project on a group either rejects the position or answers
SliceOutcomes == {"answers", "rejects"}

\* the groups that reach the first $project
ReachProject(events) ==
  {g \in EventStages(events) : Len(StageDurations(events, g)) >= MinSampleSize}

\* entry of analyzeBottlenecks with the answer of the aggregation
AnalyzeBottlenecks(a, dt, order) ==
  /\ RunFree(a)
  /\ calls < MaxCalls
  /\ calls' = calls + 1
  /\ Elapse(dt)
  /\ \E res \in Aggregate(order, SevenDaysAgo(now')), slice \in SliceOutcomes :
       LET r == [IdleRun EXCEPT !.pc = "today",
                                !.sevenDaysAgo = SevenDaysAgo(now')]
       IN IF /\ slice = "rejects"
             /\ ReachProject(UnwoundEvents(order, SevenDaysAgo(now'))) # {}
            THEN runs' = [runs EXCEPT ![a] = RunReturn(r, "AggregateError")]
            ELSE runs' = [runs EXCEPT ![a] = [r EXCEPT !.results = res]]
  /\ UNCHANGED <<store, req, broadcasts, analysisTriggers, delayed, summaries>>
  /\ UNCHANGED sideVars

\* the payload of bottleneck_analysis_complete
CompletionMessage(r) ==
  [type |-> "bottleneck_analysis_complete",
   analysisDate |-> r.today,
   stagesAnalyzed |-> Len(r.results),
   criticalStages |-> Cardinality({i \in 1..Len(r.results) :
                                     r.results[i].severity = "critical"})]

\* the aggregation has answered: today is computed and the first upsert is
\* issued; without a stage to save the run broadcasts and returns
SaveResults(a, dt) ==
  /\ runs[a].pc = "today"
  /\ Elapse(dt)
  /\ LET r == [runs[a] EXCEPT !.today = Midnight(now')]
     IN IF Len(r.results) = 0
          THEN /\ broadcasts' = Append(broadcasts, CompletionMessage(r))
               /\ runs' = [runs EXCEPT ![a] = RunReturn(r, "OK")]
          ELSE /\ runs' = [runs EXCEPT ![a] = [r EXCEPT !.pc = "query", !.idx = 1]]
               /\ UNCHANGED broadcasts
  /\ UNCHANGED <<store, req, calls, analysisTriggers, delayed, summaries>>
  /\ UNCHANGED sideVars

\* the query of findOneAndUpdate({ stage, analysisDate: today }, ...,
\* { upsert: true })
UpsertQuery(a) ==
  /\ runs[a].pc = "query"
  /\ runs' = [runs EXCEPT
                ![a].pc = "apply",
                ![a].seen = Matching(summaries, runs[a].results[runs[a].idx].stage,
                                     runs[a].today) # {}]
  /\ UNCHANGED <<store, req, now, ticks, calls, broadcasts, analysisTriggers,
                 delayed, summaries>>
  /\ UNCHANGED sideVars

\* a loop that is left after its first upsert
AfterUpsertOnce(r) == [r EXCEPT !.pc = "complete", !.seen = FALSE]

\* the run after its upsert of stage idx: the next stage, or the broadcast
AfterUpsert(r) ==
  IF r.idx = Len(r.results)
    THEN [r EXCEPT !.pc = "complete", !.seen = FALSE]
    ELSE [r EXCEPT !.pc = "query", !.idx = r.idx + 1, !.seen = FALSE]

\* the update or the insert of the upsert.  An insert that the unique index
\* rejects is retried by the server as an update or surfaces as the
\* duplicate-key error, which analyzeBottlenecks rethrows.
UpsertApply(a) ==
  /\ runs[a].pc = "apply"
  /\ \E retried \in BOOLEAN :
       LET r == runs[a]
           sa == r.results[r.idx]
           m == Matching(summaries, sa.stage, r.today)
           first == CHOOSE i \in m : \A j \in m : i <= j
       IN IF r.seen \/ (m # {} /\ ~InsertAdmitted(summaries, sa.stage, r.today) /\ retried)
            THEN /\ summaries' = [summaries EXCEPT
                                    ![first] = UpdateSummary(@, SummaryFields(sa))]
                 /\ runs' = [runs EXCEPT ![a] = AfterUpsert(r)]
            ELSE IF InsertAdmitted(summaries, sa.stage, r.today)
              THEN /\ summaries' = Append(summaries,
                                          Summary(sa.stage, r.today, SummaryFields(sa)))
                   /\ runs' = [runs EXCEPT ![a] = AfterUpsert(r)]
              ELSE /\ runs' = [runs EXCEPT ![a] = RunReturn(r, "DuplicateKey")]
                   /\ UNCHANGED summaries
  /\ UNCHANGED <<store, req, now, ticks, calls, broadcasts, analysisTriggers, delayed>>
  /\ UNCHANGED sideVars

\* a run that marks the journeys it analysed before it returns
CompleteMarkingJourneys(a) ==
  /\ runs[a].pc = "complete"
  /\ broadcasts' = Append(broadcasts, CompletionMessage(runs[a]))
  /\ runs' = [runs EXCEPT ![a] = RunReturn(runs[a], "OK")]
  /\ store' = [c \in DOMAIN store |->
                IF store[c] = NoDoc THEN NoDoc
                ELSE [store[c] EXCEPT !.failureReason = "analysed"]]
  /\ UNCHANGED <<req, now, ticks, calls, analysisTriggers, delayed, summaries>>
  /\ UNCHANGED sideVars

\* the last upsert has answered: broadcast and return
Complete(a) ==
  /\ runs[a].pc = "complete"
  /\ broadcasts' = Append(broadcasts, CompletionMessage(runs[a]))
  /\ runs' = [runs EXCEPT ![a] = RunReturn(runs[a], "OK")]
  /\ UNCHANGED <<store, req, now, ticks, calls, analysisTriggers, delayed, summaries>>
  /\ UNCHANGED sideVars

(***************************************************************************)
(* The journeys that the analysis finds in the store: cards that went      *)
(* through cycles of queueing and embossing failure, each stay of a card   *)
(* in a stage taking the same time.                                        *)
(***************************************************************************)
AnalysisTimeInputs == {24720, 25440}
AnalysisCreatedInputs == {0, 5000, 10000}
CycleInputs == {2, 3}
QueuedMinutesInputs == {0, 20, 600}
FailedMinutesInputs == {600}

\* the second card: created inside every window, with few or many cycles
RecentCreatedAt == 10000
LongCycleInputs == {2, 5}
LongQueuedMinutesInputs == {40}

\* updateCardStatus(doc.cardId, { status }) applied minutes after the last
\* event of the journey
Advance(doc, status, minutes) ==
  ApplyUpdate(doc,
              UpdateData([IdleReq EXCEPT
                            !.cardId = doc.cardId, !.status = status,
                            !.previousStatus = doc.currentStatus,
                            !.readIdx = Len(doc.journey),
                            !.eventTs = doc.journey[Len(doc.journey)].timestamp
                                        + 2 * minutes,
                            !.durationMinutes = minutes]))

RECURSIVE RetryCycles(_, _, _, _)
RetryCycles(doc, n, queued, failed) ==
  IF n = 0
    THEN doc
    ELSE RetryCycles(Advance(Advance(doc, "QUEUED_FOR_EMBOSSING", queued),
                             "EMBOSSING_FAILED", failed),
                     n - 1, queued, failed)

InitAnalytics ==
  /\ \E cr \in AnalysisCreatedInputs, n1 \in CycleInputs, n2 \in LongCycleInputs,
        q1 \in QueuedMinutesInputs, q2 \in LongQueuedMinutesInputs,
        f \in FailedMinutesInputs :
       store = [c \in CardIds |->
                  IF c \in StoredCardIds
                    THEN RetryCycles(NewCardJourney(c, SchemaDefaultStatus, cr), n1, q1, f)
                    ELSE RetryCycles(NewCardJourney(c, SchemaDefaultStatus, RecentCreatedAt),
                                     n2, q2, f)]
  /\ now \in AnalysisTimeInputs
  /\ req = [p \in Procs |-> IdleReq]
  /\ ticks = 0
  /\ calls = 0
  /\ broadcasts = <<>>
  /\ analysisTriggers = 0
  /\ delayed = NoAnswer
  /\ summaries = <<>>
  /\ runs = [a \in AnalysisProcs |-> IdleRun]
  /\ calc = NoCalc
  /\ insights = NoInsights
  /\ connectedClients = {}
  /\ readyState = [h \in Handles |-> "CLOSED"]
  /\ received = [h \in Handles |-> <<>>]
  /\ search = NoSearch
  /\ client = NoClient

NextAnalytics ==
  \/ \E a \in AnalysisProcs, dt \in AnalysisElapsedInputs, order \in ScanOrders :
       AnalyzeBottlenecks(a, dt, order)
  \/ \E a \in AnalysisProcs, dt \in AnalysisElapsedInputs : SaveResults(a, dt)
  \/ \E a \in AnalysisProcs : UpsertQuery(a)
  \/ \E a \in AnalysisProcs : UpsertApply(a)
  \/ \E a \in AnalysisProcs : Complete(a)

SpecAnalytics == InitAnalytics /\ [][NextAnalytics]_vars

(***************************************************************************)
(* The same handlers over a card whose embossing has failed, the state in  *)
(* which PUT /:cardId/retry goes through.                                  *)
(***************************************************************************)
InitRetry ==
  /\ store = [c \in CardIds |->
                IF c \in StoredCardIds
                  THEN Advance(Advance(NewCardJourney(c, SchemaDefaultStatus, 0),
                                       "QUEUED_FOR_EMBOSSING", 10),
                               "EMBOSSING_FAILED", 10)
                  ELSE NoDoc]
  /\ req = [p \in Procs |-> IdleReq]
  /\ now = 40
  /\ ticks = 0
  /\ calls = 0
  /\ broadcasts = <<>>
  /\ analysisTriggers = 0
  /\ delayed = NoAnswer
  /\ summaries = <<>>
  /\ runs = [a \in AnalysisProcs |-> IdleRun]
  /\ calc = NoCalc
  /\ insights = NoInsights
  /\ connectedClients = {}
  /\ readyState = [h \in Handles |-> "CLOSED"]
  /\ received = [h \in Handles |-> <<>>]
  /\ search = NoSearch
  /\ client = NoClient

SpecRetry == InitRetry /\ [][Next]_vars

(***************************************************************************)
(* The analysis of one group of the aggregation on its own: the durations  *)
(* that $group pushed for a stage, what the two $project stages and the    *)
(* last $match make of them, and the recommendations of the stage.         *)
(***************************************************************************)
GroupSizeInputs == 5..10
LargeGroupSizeInputs == {1001}
LargeGroupHighInputs == {0, 400, 1001}
LowMinutesInputs == {20, 30, 300, 480}
HighMinutesInputs == {31, 481, 3000}
GroupStageInputs ==
  {"APPROVED", "QUEUED_FOR_EMBOSSING", "IN_EMBOSSING", "OUT_FOR_DELIVERY"}

\* the sizes of the groups with the number of their long durations
GroupShapes ==
  {nd \in GroupSizeInputs \X (0..10) : nd[2] <= nd[1]}
  \cup (LargeGroupSizeInputs \X LargeGroupHighInputs)

\* the pushed durations of a group: high of them long, the others short
GroupDurations(n, high, lowMinutes, highMinutes) ==
  [i \in 1..n |-> IF i <= high THEN highMinutes ELSE lowMinutes]

InitStage ==
  /\ \E nd \in GroupShapes, lo \in LowMinutesInputs, hi \in HighMinutesInputs,
        st \in GroupStageInputs :
       calc = [pc |-> "grouped", stage |-> st,
               durations |-> GroupDurations(nd[1], nd[2], lo, hi)]
  /\ store = [c \in CardIds |-> NoDoc]
  /\ now = 0
  /\ req = [p \in Procs |-> IdleReq]
  /\ ticks = 0
  /\ calls = 0
  /\ broadcasts = <<>>
  /\ analysisTriggers = 0
  /\ delayed = NoAnswer
  /\ summaries = <<>>
  /\ runs = [a \in AnalysisProcs |-> IdleRun]
  /\ insights = NoInsights
  /\ connectedClients = {}
  /\ readyState = [h \in Handles |-> "CLOSED"]
  /\ received = [h \in Handles |-> <<>>]
  /\ search = NoSearch
  /\ client = NoClient

stageFrame ==
  <<store, req, now, ticks, calls, broadcasts, analysisTriggers, delayed,
    summaries, runs, insights, connectedClients, readyState, received,
    search, client>>

\* the $project stages and the $match on avgDuration for the group
ProjectGroup ==
  /\ calc.pc = "grouped"
  /\ Len(calc.durations) >= MinSampleSize
  /\ LET sa == StageAnalysisOf(calc.stage, calc.durations)
     IN calc' = [pc |-> "projected", stage |-> calc.stage,
                 durations |-> calc.durations, analysis |-> sa,
                 retained |-> Retained(sa)]
  /\ UNCHANGED stageFrame

\* this.generateRecommendations(stage) for a stage of the answer
Recommend ==
  /\ calc.pc = "projected"
  /\ calc.retained
  /\ calc' = [pc |-> "recommended", stage |-> calc.stage,
              durations |-> calc.durations, analysis |-> calc.analysis,
              retained |-> TRUE,
              recommendations |-> GenerateRecommendations(calc.analysis)]
  /\ UNCHANGED stageFrame

NextStage == ProjectGroup \/ Recommend

SpecStage == InitStage /\ [][NextStage]_vars

(***************************************************************************)
(* generateInsights (services/analyticsService.js) with the queries it     *)
(* awaits: getCurrentBottlenecks(3) of the summary model, the regional     *)
(* performance and the two volume counts.                                  *)
(***************************************************************************)
InsightCardIds == CardIds \cup {"CRD3"}
InsightTimeInputs == {24720}
InsightCreatedInputs == {24000, 21000}
InsightStatusInputs == {"DELIVERED", "IN_TRANSIT"}
InsightRegionInputs == {"north", "south"}
InsightStages ==
  <<"QUEUED_FOR_EMBOSSING", "IN_EMBOSSING", "IN_TRANSIT", "OUT_FOR_DELIVERY">>
InsightDelayedInputs == {0, 2, 3, 4}
InsightThirdDelayedInputs == {0, 3}
InsightLastDelayedInputs == {0, 4}
InsightDateInputs == {23040, 0}
InsightLimit == 3
RegionTargetTenths == 900
VolumeThresholdPercent == 20

\* what the insights read of a journey
InsightJourney(cardId, status, createdAt, region) ==
  [cardId |-> cardId, currentStatus |-> status, createdAt |-> createdAt,
   region |-> region]

\* the summary that a run of the analysis stores for a stage of 10 samples,
\* long of them of 600 minutes and the others of 300
InsightSummary(stage, long, analysisDate) ==
  Summary(stage, analysisDate,
          SummaryFields(StageAnalysisOf(stage, GroupDurations(10, long, 300, 600))))

InitInsights ==
  /\ \E d \in [1..2 -> InsightDelayedInputs], d3 \in InsightThirdDelayedInputs,
        d4 \in InsightLastDelayedInputs, date \in InsightDateInputs :
       summaries = [i \in 1..4 |->
                      InsightSummary(InsightStages[i],
                                     IF i = 4 THEN d4 ELSE IF i = 3 THEN d3 ELSE d[i],
                                     IF i = 1 THEN date ELSE Midnight(24720))]
  /\ \E cr \in [CardIds -> InsightCreatedInputs \cup {NoTime}],
        st \in [CardIds -> InsightStatusInputs],
        third \in BOOLEAN, rg \in InsightRegionInputs :
       store = [c \in InsightCardIds |->
                  IF c \in CardIds
                    THEN IF cr[c] = NoTime THEN NoDoc
                         ELSE InsightJourney(c, st[c], cr[c],
                                             IF c \in StoredCardIds THEN "north" ELSE rg)
                    ELSE IF third THEN InsightJourney(c, "IN_TRANSIT", 24000, "north")
                         ELSE NoDoc]
  /\ now \in InsightTimeInputs
  /\ req = [p \in Procs |-> IdleReq]
  /\ ticks = 0
  /\ calls = 0
  /\ broadcasts = <<>>
  /\ analysisTriggers = 0
  /\ delayed = NoAnswer
  /\ runs = [a \in AnalysisProcs |-> IdleRun]
  /\ calc = NoCalc
  /\ insights = NoInsights
  /\ connectedClients = {}
  /\ readyState = [h \in Handles |-> "CLOSED"]
  /\ received = [h \in Handles |-> <<>>]
  /\ search = NoSearch
  /\ client = NoClient

\* the place of a severity in the order of strings, by which a sort on the
\* field severity compares
SeverityCollation(severity) ==
  IF severity = "critical" THEN 1
  ELSE IF severity = "high" THEN 2
  ELSE IF severity = "low" THEN 3
  ELSE 4

\* the sort key { severity: -1, delayPercentage: -1 } puts a before b, or
\* leaves their order open
SortsBeforeOrWith(a, b) ==
  \/ SeverityCollation(a.fields.severity) > SeverityCollation(b.fields.severity)
  \/ /\ a.fields.severity = b.fields.severity
     /\ a.fields.delayPercentage >= b.fields.delayPercentage

\* getCurrentBottlenecks(limit) of the summary model: the answers the store
\* can give
GetCurrentBottlenecks(limit) ==
  LET current == {i \in 1..Len(summaries) :
                    summaries[i].analysisDate >= SevenDaysAgo(now)}
      n == Cardinality(current)
      sorted == {s \in [1..n -> current] :
                   /\ \A i, j \in 1..n : i # j => s[i] # s[j]
                   /\ \A i, j \in 1..n :
                        i < j => SortsBeforeOrWith(summaries[s[i]], summaries[s[j]])}
  IN {[k \in 1..(IF n < limit THEN n ELSE limit) |-> summaries[s[k]]] : s \in sorted}

\* an entry of the list of insights
Insight(type, severity, subject, finite, tenths) ==
  [type |-> type, severity |-> severity, subject |-> subject,
   finite |-> finite, tenths |-> tenths]

\* the insights pushed for the critical and high bottlenecks
BottleneckInsights(bottlenecks) ==
  LET alerts == SelectSeq(bottlenecks,
                          LAMBDA b : b.fields.severity \in {"critical", "high"})
  IN [k \in 1..Len(alerts) |->
        Insight("bottleneck", alerts[k].fields.severity, alerts[k].stage,
                TRUE, alerts[k].fields.delayPercentage)]

\* the journeys created at or after t and before u
CreatedBetween(t, u) ==
  {c \in DOMAIN store :
     store[c] # NoDoc /\ store[c].createdAt >= t /\ store[c].createdAt < u}

\* { $ifNull: ["$metadata.region", "Unknown"] }
RegionOf(doc) == IF "region" \in DOMAIN doc THEN doc.region ELSE "Unknown"

\* getRegionalPerformance(): the groups by region of the journeys of the
\* last 7 days, successRate rounded to a tenth of a percent, sorted by
\* totalCards descending
RegionGroup(region, cards) ==
  LET members == {c \in cards : RegionOf(store[c]) = region}
      delivered == {c \in members : store[c].currentStatus = "DELIVERED"}
  IN [region |-> region,
      totalCards |-> Cardinality(members),
      successRate |-> RoundHalfEven(1000 * Cardinality(delivered),
                                    Cardinality(members))]

GetRegionalPerformance ==
  LET cards == CreatedBetween(SevenDaysAgo(now), now + 1)
      groups == {RegionGroup(RegionOf(store[c]), cards) : c \in cards}
      n == Cardinality(groups)
  IN {s \in [1..n -> groups] :
        /\ \A i, j \in 1..n : i # j => s[i] # s[j]
        /\ \A i, j \in 1..n : i < j => s[i].totalCards >= s[j].totalCards}

\* regionalPerf.find(r => r.successRate < 90) and the insight for it
RegionalInsights(regionalPerf) ==
  LET below == SelectSeq(regionalPerf, LAMBDA g : g.successRate < RegionTargetTenths)
  IN IF below = <<>> THEN <<>>
     ELSE <<Insight("regional", "medium", below[1].region, TRUE,
                    below[1].successRate)>>

\* the day before the day of t
YesterdayMidnight(t) == Midnight(t - 2880)

\* ((todayVolume - yesterdayVolume) / yesterdayVolume) * 100: a number, or
\* Infinity for an increase from 0, or NaN for 0 / 0
VolumeChange(todayVolume, yesterdayVolume) ==
  IF yesterdayVolume # 0
    THEN [kind |-> "number", num |-> 100 * (todayVolume - yesterdayVolume),
          den |-> yesterdayVolume]
  ELSE IF todayVolume # 0 THEN [kind |-> "Infinity", num |-> 1, den |-> 0]
  ELSE [kind |-> "NaN", num |-> 0, den |-> 0]

Abs(x) == IF x < 0 THEN 0 - x ELSE x

\* Math.abs(volumeChange) > 20: true for Infinity, false for NaN
ExceedsVolumeThreshold(change) ==
  \/ change.kind = "Infinity"
  \/ change.kind = "number" /\ Abs(change.num) > VolumeThresholdPercent * change.den

\* the volume insight; toFixed(1) of the percentage gives tenths of a
\* percent, and "Infinity" for Infinity
VolumeInsights(change) ==
  IF ~ExceedsVolumeThreshold(change) THEN <<>>
  ELSE IF change.kind = "Infinity"
    THEN <<Insight("volume", "medium", "volume", FALSE, 0)>>
  ELSE <<Insight("volume", IF change.num > 0 THEN "medium" ELSE "low", "volume",
                 TRUE, (20 * Abs(change.num) + change.den) \div (2 * change.den))>>

\* severityOrder of the comparator
SeverityRank(severity) ==
  IF severity = "critical" THEN 4
  ELSE IF severity = "high" THEN 3
  ELSE IF severity = "medium" THEN 2
  ELSE 1

\* the sort with the comparator severityOrder[a] - severityOrder[b]
SortInsightsAscending(list) ==
  SelectSeq(list, LAMBDA x : SeverityRank(x.severity) = 1)
  \o SelectSeq(list, LAMBDA x : SeverityRank(x.severity) = 2)
  \o SelectSeq(list, LAMBDA x : SeverityRank(x.severity) = 3)
  \o SelectSeq(list, LAMBDA x : SeverityRank(x.severity) = 4)

\* insights.sort((a, b) => severityOrder[b.severity] -
\* severityOrder[a.severity]); the sort is stable
SortInsights(list) ==
  SelectSeq(list, LAMBDA x : SeverityRank(x.severity) = 4)
  \o SelectSeq(list, LAMBDA x : SeverityRank(x.severity) = 3)
  \o SelectSeq(list, LAMBDA x : SeverityRank(x.severity) = 2)
  \o SelectSeq(list, LAMBDA x : SeverityRank(x.severity) = 1)

insightFrame ==
  <<store, req, now, ticks, calls, broadcasts, analysisTriggers, delayed,
    summaries, runs, calc, connectedClients, readyState, received,
    search, client>>

\* entry of generateInsights with the answer of getCurrentBottlenecks(3)
GenerateInsights ==
  /\ insights.pc = "idle"
  /\ \E bottlenecks \in GetCurrentBottlenecks(InsightLimit) :
       insights' = [pc |-> "regional", bottlenecks |-> bottlenecks,
                    list |-> BottleneckInsights(bottlenecks)]
  /\ UNCHANGED insightFrame

\* the answer of getRegionalPerformance()
RegionalStep ==
  /\ insights.pc = "regional"
  /\ \E regionalPerf \in GetRegionalPerformance :
       insights' = [pc |-> "today", bottlenecks |-> insights.bottlenecks,
                    list |-> insights.list \o RegionalInsights(regionalPerf)]
  /\ UNCHANGED insightFrame

\* the count of the journeys created today
CountToday ==
  /\ insights.pc = "today"
  /\ insights' = [pc |-> "yesterday", bottlenecks |-> insights.bottlenecks,
                  list |-> insights.list,
                  todayVolume |-> Cardinality(CreatedBetween(Midnight(now), now + 1))]
  /\ UNCHANGED insightFrame

\* the count of the journeys created yesterday, the volume insight, the
\* sort and the return
CountYesterday ==
  /\ insights.pc = "yesterday"
  /\ LET yesterdayVolume ==
           Cardinality(CreatedBetween(YesterdayMidnight(now), Midnight(now)))
         change == VolumeChange(insights.todayVolume, yesterdayVolume)
     IN insights' = [pc |-> "done", bottlenecks |-> insights.bottlenecks,
                     list |-> SortInsights(insights.list \o VolumeInsights(change))]
  /\ UNCHANGED insightFrame

NextInsights ==
  \/ GenerateInsights
  \/ RegionalStep
  \/ CountToday
  \/ CountYesterday

SpecInsights == InitInsights /\ [][NextInsights]_vars

(***************************************************************************)
(* The WebSocket server (config/websocket.js): the set connectedClients,   *)
(* the handlers of a connection, the periodic cleanup and broadcast.       *)
(* received is the sequence of the messages handed to the send of a       *)
(* handle: ConnectionEstablished, or the number of the broadcast call.     *)
(***************************************************************************)
InitFanout ==
  /\ connectedClients = {}
  /\ readyState = [h \in Handles |-> "CLOSED"]
  /\ received = [h \in Handles |-> <<>>]
  /\ search = NoSearch
  /\ client = NoClient
  /\ store = [c \in CardIds |-> NoDoc]
  /\ now = 0
  /\ req = [p \in Procs |-> IdleReq]
  /\ ticks = 0
  /\ calls = 0
  /\ broadcasts = <<>>
  /\ analysisTriggers = 0
  /\ delayed = NoAnswer
  /\ summaries = <<>>
  /\ runs = [a \in AnalysisProcs |-> IdleRun]
  /\ calc = NoCalc
  /\ insights = NoInsights

fanoutFrame ==
  <<store, req, now, ticks, broadcasts, analysisTriggers, delayed, summaries,
    runs, calc, insights, search, client>>

\* the message { type: 'connection_established' } among the numbers of the
\* broadcast calls
ConnectionEstablished == 0

\* wss.on('connection'): a new open socket is added to the set and is sent
\* the welcome message
OnConnection(h) ==
  /\ h \notin connectedClients
  /\ readyState[h] = "CLOSED"
  /\ connectedClients' = connectedClients \cup {h}
  /\ readyState' = [readyState EXCEPT ![h] = "OPEN"]
  /\ received' = [received EXCEPT ![h] = <<ConnectionEstablished>>]
  /\ UNCHANGED calls
  /\ UNCHANGED fanoutFrame

\* the closing handshake of a socket has begun or its connection is lost:
\* the socket is no longer OPEN, its 'close' event is still to come
StartClosing(h) ==
  /\ readyState[h] = "OPEN"
  /\ readyState' = [readyState EXCEPT ![h] = "CLOSING"]
  /\ UNCHANGED <<connectedClients, received, calls>>
  /\ UNCHANGED fanoutFrame

\* ws.on('close'): the socket is deleted from the set
OnCloseKeeping(h) ==
  /\ readyState[h] = "CLOSING"
  /\ readyState' = [readyState EXCEPT ![h] = "CLOSED"]
  /\ UNCHANGED <<connectedClients, received, calls>>
  /\ UNCHANGED fanoutFrame

OnClose(h) ==
  /\ readyState[h] = "CLOSING"
  /\ readyState' = [readyState EXCEPT ![h] = "CLOSED"]
  /\ connectedClients' = connectedClients \ {h}
  /\ UNCHANGED <<received, calls>>
  /\ UNCHANGED fanoutFrame

\* ws.on('error'): the socket is deleted from the set; the library has left
\* OPEN before it emits the event, and the 'close' event follows
OnError(h) ==
  /\ readyState[h] = "OPEN"
  /\ readyState' = [readyState EXCEPT ![h] = "CLOSING"]
  /\ connectedClients' = connectedClients \ {h}
  /\ UNCHANGED <<received, calls>>
  /\ UNCHANGED fanoutFrame

\* the cleanup of setInterval: the sockets that are not OPEN are deleted
CleanupClosedOnly ==
  /\ \E h \in connectedClients : readyState[h] # "OPEN"
  /\ connectedClients' = {h \in connectedClients : readyState[h] # "CLOSED"}
  /\ UNCHANGED <<readyState, received, calls>>
  /\ UNCHANGED fanoutFrame

Cleanup ==
  /\ \E h \in connectedClients : readyState[h] # "OPEN"
  /\ connectedClients' = {h \in connectedClients : readyState[h] = "OPEN"}
  /\ UNCHANGED <<readyState, received, calls>>
  /\ UNCHANGED fanoutFrame

\* broadcast(type, data): the message is sent to every socket of the set
\* that is OPEN; a socket whose send throws is deleted; throwing are the
\* sockets whose send throws
BroadcastNewestFirst(throwing) ==
  /\ calls < MaxCalls
  /\ calls' = calls + 1
  /\ received' = [h \in Handles |->
                    IF /\ h \in connectedClients
                       /\ readyState[h] = "OPEN"
                       /\ h \notin throwing
                      THEN <<calls + 1>> \o received[h]
                      ELSE received[h]]
  /\ connectedClients' =
       {h \in connectedClients : ~(readyState[h] = "OPEN" /\ h \in throwing)}
  /\ UNCHANGED readyState
  /\ UNCHANGED fanoutFrame

Broadcast(throwing) ==
  /\ calls < MaxCalls
  /\ calls' = calls + 1
  /\ received' = [h \in Handles |->
                    IF /\ h \in connectedClients
                       /\ readyState[h] = "OPEN"
                       /\ h \notin throwing
                      THEN Append(received[h], calls + 1)
                      ELSE received[h]]
  /\ connectedClients' =
       {h \in connectedClients : ~(readyState[h] = "OPEN" /\ h \in throwing)}
  /\ UNCHANGED readyState
  /\ UNCHANGED fanoutFrame

NextFanout ==
  \/ \E h \in Handles : OnConnection(h)
  \/ \E h \in Handles : StartClosing(h)
  \/ \E h \in Handles : OnClose(h)
  \/ \E h \in Handles : OnError(h)
  \/ Cleanup
  \/ \E throwing \in SUBSET {h \in connectedClients : readyState[h] = "OPEN"} :
       Broadcast(throwing)

SpecFanout == InitFanout /\ [][NextFanout]_vars

\* setInterval runs the cleanup again and again: a cleanup that has
\* something to delete is not postponed forever
SpecFanoutFair == SpecFanout /\ WF_vars(Cleanup)

(***************************************************************************)
(* searchCards(query) behind GET /search.  A string is the sequence of its *)
(* characters; new RegExp(query, 'i').test(text) is, for a query without   *)
(* regular-expression operators, the case-insensitive search of query in   *)
(* text.                                                                   *)
(***************************************************************************)
MinQueryLength == 3
MinPanQueryLength == 8
MinDigitsQueryLength == 4
SearchLimit == 10

Digits == {"0", "1", "2", "3", "4", "5", "6", "7", "8", "9"}

\* toUpperCase of a character
ToUpperCase(ch) ==
  CASE ch = "a" -> "A" [] ch = "b" -> "B" [] ch = "c" -> "C"
    [] ch = "d" -> "D" [] ch = "i" -> "I" [] ch = "n" -> "N"
    [] ch = "p" -> "P" [] ch = "r" -> "R" [] ch = "s" -> "S"
    [] ch = "u" -> "U"
    [] OTHER -> ch

StartsWith(text, prefix) ==
  /\ Len(prefix) <= Len(text)
  /\ \A j \in 1..Len(prefix) : text[j] = prefix[j]

Includes(text, ch) == \E j \in 1..Len(text) : text[j] = ch

AllDigits(text) == \A j \in 1..Len(text) : text[j] \in Digits

\* new RegExp(query, 'i') matches text
RegExpI(query, text) ==
  \E i \in 0..(Len(text) - Len(query)) :
    \A j \in 1..Len(query) : ToUpperCase(text[i + j]) = ToUpperCase(query[j])

\* the documents of the collection that the search specifications draw from
SearchCardInputs ==
  {[cardId |-> <<"C", "R", "D", "1">>,
    customerId |-> <<"C", "U", "S", "7">>,
    customerName |-> <<"A", "n", "n">>,
    applicationId |-> <<"A", "P", "P", "9">>,
    panMasked |-> <<"4", "*", "*", "*", "1", "2", "3", "4">>,
    createdAt |-> 1],
   [cardId |-> <<"C", "R", "D", "2">>,
    customerId |-> <<"C", "U", "S", "1", "2", "3", "4">>,
    customerName |-> <<"R", "i", "c", "a", "r", "d">>,
    applicationId |-> <<"A", "P", "P", "8">>,
    panMasked |-> <<"5", "*", "*", "*", "9", "9", "9", "9">>,
    createdAt |-> 2],
   [cardId |-> <<"C", "R", "D", "3">>,
    customerId |-> <<"c", "r", "d", "u", "s">>,
    customerName |-> <<"B", "a", "s", "i", "a">>,
    applicationId |-> <<"A", "P", "P", "7">>,
    panMasked |-> <<"4", "*", "*", "*", "0", "0", "0", "0">>,
    createdAt |-> 3]}

SearchQueryInputs ==
  {<<"C", "R", "D", "1">>, <<"c", "r", "d">>, <<"R", "D", "1">>,
   <<"a", "b">>, <<>>, <<"a", "n", "n">>, <<"1", "2", "3", "4">>,
   <<"A", "P", "P">>, <<"c", "a", "r", "d">>,
   <<"4", "*", "*", "*", "1", "2", "3", "4">>}

\* the search criteria built from the shape of the query
SearchCriteria(query, card) ==
  IF StartsWith([j \in 1..Len(query) |-> ToUpperCase(query[j])], <<"C", "R", "D">>)
    THEN RegExpI(query, card.cardId)
  ELSE IF Includes(query, "*") /\ Len(query) >= MinPanQueryLength
    THEN card.panMasked = query
  ELSE IF AllDigits(query) /\ Len(query) >= MinDigitsQueryLength
    THEN \/ RegExpI(query, card.customerName)
         \/ RegExpI(query, card.customerId)
  ELSE \/ RegExpI(query, card.customerName)
       \/ RegExpI(query, card.customerId)
       \/ RegExpI(query, card.applicationId)

\* .sort({ createdAt: -1 })
RECURSIVE SortByCreatedAtDescending(_)
SortByCreatedAtDescending(S) ==
  IF S = {}
    THEN <<>>
    ELSE LET newest == CHOOSE x \in S : \A y \in S : y.createdAt <= x.createdAt
         IN <<newest>> \o SortByCreatedAtDescending(S \ {newest})

\* .limit(10)
Limit(s, n) == SubSeq(s, 1, IF Len(s) < n THEN Len(s) ELSE n)

\* searchCards(query) over the collection cards
SearchCards(query, cards) ==
  IF Len(query) < MinQueryLength
    THEN [pc |-> "done", query |-> query, cards |-> cards, queried |-> FALSE,
          error |-> "QueryTooShort", found |-> <<>>]
    ELSE [pc |-> "done", query |-> query, cards |-> cards, queried |-> TRUE,
          error |-> NoValue,
          found |-> Limit(SortByCreatedAtDescending(
                            {card \in cards : SearchCriteria(query, card)}),
                          SearchLimit)]

InitSearch ==
  /\ \E query \in SearchQueryInputs, cards \in SUBSET SearchCardInputs :
       search = [pc |-> "called", query |-> query, cards |-> cards]
  /\ client = NoClient
  /\ store = [c \in CardIds |-> NoDoc]
  /\ req = [p \in Procs |-> IdleReq]
  /\ now = 0
  /\ ticks = 0
  /\ calls = 0
  /\ broadcasts = <<>>
  /\ analysisTriggers = 0
  /\ delayed = NoAnswer
  /\ summaries = <<>>
  /\ runs = [a \in AnalysisProcs |-> IdleRun]
  /\ calc = NoCalc
  /\ insights = NoInsights
  /\ connectedClients = {}
  /\ readyState = [h \in Handles |-> "CLOSED"]
  /\ received = [h \in Handles |-> <<>>]

\* GET /search?q=query: the route's check of q, then searchCards(q)
Search ==
  /\ search.pc = "called"
  /\ search' = SearchCards(search.query, search.cards)
  /\ UNCHANGED <<store, req, now, ticks, calls, broadcasts, analysisTriggers,
                 delayed, summaries, runs, calc, insights, connectedClients,
                 readyState, received, client>>

NextSearch == Search

SpecSearch == InitSearch /\ [][NextSearch]_vars

(***************************************************************************)
(* The browser's WebSocketProvider (context/WebSocketContext.js).  The     *)
(* effect of the first render calls connect; the handlers of every socket  *)
(* are closures of that connect, which calls itself from the reconnect     *)
(* timer: the reconnectAttempts they read is the one of the first render.  *)
(* client.socket is the readyState of the socket created last and          *)
(* client.held tells whether the state socket holds it.                    *)
(***************************************************************************)
maxReconnectAttempts == 5

\* the reconnects that the model follows
MaxReconnects == 7

ManualCloseCode == 1000
AbnormalCloseCode == 1006

CloseCodeInputs == {ManualCloseCode, AbnormalCloseCode}

\* reconnectAttempts as the closure of connect sees it: useState(0) of the
\* render whose effect called connect
ClosureReconnectAttempts == 0

\* connect(): a new WebSocket, setConnectionStatus('connecting'),
\* setSocket(newSocket)
Connect(c) ==
  [c EXCEPT !.status = "connecting", !.socket = "CONNECTING", !.held = TRUE,
            !.closing = FALSE]

InitClient ==
  /\ client = Connect([status |-> "disconnected", isConnected |-> FALSE,
                       reconnectAttempts |-> 0, socket |-> "NONE",
                       held |-> FALSE, closing |-> FALSE, timer |-> FALSE,
                       code |-> 0, lastMessage |-> NoValue])
  /\ search = NoSearch
  /\ store = [c \in CardIds |-> NoDoc]
  /\ req = [p \in Procs |-> IdleReq]
  /\ now = 0
  /\ ticks = 0
  /\ calls = 0
  /\ broadcasts = <<>>
  /\ analysisTriggers = 0
  /\ delayed = NoAnswer
  /\ summaries = <<>>
  /\ runs = [a \in AnalysisProcs |-> IdleRun]
  /\ calc = NoCalc
  /\ insights = NoInsights
  /\ connectedClients = {}
  /\ readyState = [h \in Handles |-> "CLOSED"]
  /\ received = [h \in Handles |-> <<>>]

clientFrame ==
  <<store, req, now, ticks, calls, broadcasts, analysisTriggers, delayed,
    summaries, runs, calc, insights, connectedClients, readyState, received,
    search>>

\* newSocket.onopen
OnOpen ==
  /\ client.socket = "CONNECTING"
  /\ client' = [client EXCEPT !.socket = "OPEN", !.isConnected = TRUE,
                              !.status = "connected",
                              !.reconnectAttempts = 0]
  /\ UNCHANGED clientFrame

\* the message types that the server sends
MessageTypeInputs == {"connection_established", "status_updated"}

\* newSocket.onmessage: setLastMessage(message)
OnMessage(type) ==
  /\ client.socket = "OPEN"
  /\ client.lastMessage # type
  /\ client' = [client EXCEPT !.lastMessage = type]
  /\ UNCHANGED clientFrame

\* newSocket.onerror: the browser fires it when the connection fails; the
\* close event follows
OnSocketError ==
  /\ client.socket \in {"CONNECTING", "OPEN"}
  /\ client' = [client EXCEPT !.socket = "CLOSING", !.status = "error"]
  /\ UNCHANGED clientFrame

\* the condition under which onclose schedules a reconnect
SchedulesReconnect(code) ==
  code # ManualCloseCode /\ ClosureReconnectAttempts < maxReconnectAttempts

\* newSocket.onclose with event.code: 1000 after socket.close(1000), any
\* code when the server or the network ends the connection
OnSocketClose(code) ==
  /\ client.socket \in {"CONNECTING", "OPEN", "CLOSING"}
  /\ client.closing => code = ManualCloseCode
  /\ client' = [client EXCEPT
                  !.socket = "CLOSED", !.isConnected = FALSE, !.closing = FALSE,
                  !.code = code,
                  !.status = IF SchedulesReconnect(code)
                               THEN "reconnecting" ELSE "disconnected",
                  !.timer = SchedulesReconnect(code)]
  /\ UNCHANGED clientFrame

\* the callback of setTimeout(..., reconnectDelay):
\* setReconnectAttempts(prev => prev + 1); connect()
ReconnectTimer ==
  /\ client.timer
  /\ client.reconnectAttempts < MaxReconnects
  /\ client' = Connect([client EXCEPT
                          !.timer = FALSE,
                          !.reconnectAttempts = client.reconnectAttempts + 1])
  /\ UNCHANGED clientFrame

\* disconnect() of the current render: socket.close(1000, 'Manual
\* disconnect'); setSocket(null)
Disconnect ==
  /\ client.held
  /\ client' = [client EXCEPT
                  !.held = FALSE,
                  !.socket = IF client.socket \in {"CONNECTING", "OPEN"}
                               THEN "CLOSING" ELSE client.socket,
                  !.closing = client.socket \in {"CONNECTING", "OPEN"}
                              \/ client.closing]
  /\ UNCHANGED clientFrame

NextClient ==
  \/ OnOpen
  \/ \E type \in MessageTypeInputs : OnMessage(type)
  \/ OnSocketError
  \/ \E code \in CloseCodeInputs : OnSocketClose(code)
  \/ ReconnectTimer
  \/ Disconnect

SpecClient == InitClient /\ [][NextClient]_vars

(***************************************************************************)
(* The journey handlers, the analysis runs and generateInsights side by    *)
(* side over one store: journeys that went through cycles of queueing and  *)
(* embossing failure.                                                      *)
(***************************************************************************)
SystemTimeInputs == {24720}
SystemCycleInputs == {5}

InitSystem ==
  /\ \E n \in SystemCycleInputs :
       store = [c \in CardIds |->
                  RetryCycles(NewCardJourney(c, SchemaDefaultStatus, RecentCreatedAt),
                              n, 600, 600)]
  /\ now \in SystemTimeInputs
  /\ req = [p \in Procs |-> IdleReq]
  /\ ticks = 0
  /\ calls = 0
  /\ broadcasts = <<>>
  /\ analysisTriggers = 0
  /\ delayed = NoAnswer
  /\ summaries = <<>>
  /\ runs = [a \in AnalysisProcs |-> IdleRun]
  /\ calc = NoCalc
  /\ insights = NoInsights
  /\ connectedClients = {}
  /\ readyState = [h \in Handles |-> "CLOSED"]
  /\ received = [h \in Handles |-> <<>>]
  /\ search = NoSearch
  /\ client = NoClient

\* one request handler and one analysis run at a time, beside
\* generateInsights; updates from a known source, with and without a
\* failure, and a clock that stands still
SystemProcs == {"p1"}
SystemAnalysisProcs == {"a1"}
SystemElapsedInputs == {0}
SystemStatusDataInputs ==
  {sd \in StatusDataInputs :
     /\ sd.status \in {"QUEUED_FOR_EMBOSSING", "EMBOSSING_FAILED"}
     /\ sd.source # NoValue}

NextSystem ==
  \/ \E p \in SystemProcs, c \in StoredCardIds, sd \in SystemStatusDataInputs :
       UpdateCardStatus(p, c, sd)
  \/ \E p \in SystemProcs : FindOne(p)
  \/ \E p \in SystemProcs, dt \in SystemElapsedInputs : BuildUpdate(p, dt)
  \/ \E p \in SystemProcs : WriteUpdate(p)
  \/ \E p \in SystemProcs : Notify(p)
  \/ \E p \in SystemProcs : Finish(p)
  \/ \E p \in SystemProcs, c \in StoredCardIds : Retry(p, c)
  \/ \E p \in SystemProcs, cd \in CardDataInputs, dt \in SystemElapsedInputs :
       CreateCard(p, cd, dt)
  \/ \E p \in SystemProcs : Save(p)
  \/ \E a \in SystemAnalysisProcs, dt \in SystemElapsedInputs, order \in ScanOrders :
       AnalyzeBottlenecks(a, dt, order)
  \/ \E a \in SystemAnalysisProcs, dt \in SystemElapsedInputs : SaveResults(a, dt)
  \/ \E a \in SystemAnalysisProcs : UpsertQuery(a)
  \/ \E a \in SystemAnalysisProcs : UpsertApply(a)
  \/ \E a \in SystemAnalysisProcs : Complete(a)
  \/ GenerateInsights
  \/ RegionalStep
  \/ CountToday
  \/ CountYesterday

SpecSystem == InitSystem /\ [][NextSystem]_vars

(***************************************************************************)
(* The two routes behind validateApiKey: POST /:cardId/status and          *)
(* PUT /:cardId/retry.  The key of a request is its X-API-Key header or,   *)
(* without one, its query parameter apiKey.                                *)
(***************************************************************************)
\* process.env.API_KEY || 'commonmannotrequired', with API_KEY not set
ValidApiKey == "commonmannotrequired"

ApiKeyInputs == {ValidApiKey, "another-key", NoValue}

\* the middleware calls next(): validApiKey is never falsy, so the request
\* goes on only with a key that is equal to it
ValidateApiKeyOptional(apiKey) == apiKey = NoValue \/ apiKey = ValidApiKey

ValidateApiKey(apiKey) == apiKey # NoValue /\ apiKey = ValidApiKey

\* POST /:cardId/status: the middleware answers 401 or the handler calls
\* updateCardStatus(cardId, req.body)
PostStatus(p, cardId, sd, apiKey) ==
  /\ Free(p)
  /\ calls < MaxCalls
  /\ calls' = calls + 1
  /\ LET r0 == [IdleReq EXCEPT !.kind = "update", !.cardId = cardId,
                               !.apiKey = apiKey]
         r == UpdateEntry(r0, cardId, sd)
     IN req' = [req EXCEPT ![p] = IF ~ValidateApiKey(apiKey)
                                    THEN Fail(r0, "Unauthorized")
                                  ELSE IF r.pc = "findOne"
                                    THEN FindOneResult(r, store[cardId])
                                    ELSE r]
  /\ UNCHANGED <<store, now, ticks, broadcasts, analysisTriggers>>
  /\ UNCHANGED reportVars
  /\ UNCHANGED sideVars

\* PUT /:cardId/retry: the middleware answers 401 or the handler reads the
\* card and calls updateCardStatus
PutRetry(p, cardId, apiKey) ==
  /\ Free(p)
  /\ calls < MaxCalls
  /\ calls' = calls + 1
  /\ LET r0 == [IdleReq EXCEPT !.kind = "retry", !.cardId = cardId,
                               !.apiKey = apiKey]
     IN req' = [req EXCEPT ![p] = IF ~ValidateApiKey(apiKey)
                                    THEN Fail(r0, "Unauthorized")
                                    ELSE RetryGetResult(r0, store[cardId])]
  /\ UNCHANGED <<store, now, ticks, broadcasts, analysisTriggers>>
  /\ UNCHANGED reportVars
  /\ UNCHANGED sideVars

NextApi ==
  \/ \E p \in Procs, c \in CardIds, sd \in SystemStatusDataInputs,
        apiKey \in ApiKeyInputs :
       PostStatus(p, c, sd, apiKey)
  \/ \E p \in Procs, c \in CardIds, apiKey \in ApiKeyInputs :
       PutRetry(p, c, apiKey)
  \/ \E p \in Procs : FindOne(p)
  \/ \E p \in Procs, dt \in SystemElapsedInputs : BuildUpdate(p, dt)
  \/ \E p \in Procs : WriteUpdate(p)
  \/ \E p \in Procs : Notify(p)
  \/ \E p \in Procs : Finish(p)

SpecApi == InitRetry /\ [][NextApi]_vars

(***************************************************************************)
(* Properties.                                                             *)
(***************************************************************************)
Stored == {c \in CardIds : store[c] # NoDoc}

LastEvent(doc) == doc.journey[Len(doc.journey)]

UpdateKinds == {"update", "retry"}

\* the request has passed its store write and has not returned yet
PastWrite(p) == req[p].kind \in UpdateKinds /\ req[p].pc \in {"notify", "sms"}

FailureStages == {"EMBOSSING_FAILED", "DELIVERY_FAILED"}

TerminalStages == {"DELIVERED", "DESTROYED"}

\* the transition table of the journey state machine: the happy path and
\* the two failure and retry branches
ValidTransition(from, to) ==
  <<from, to>> \in
    {<<"APPROVED", "QUEUED_FOR_EMBOSSING">>,
     <<"QUEUED_FOR_EMBOSSING", "IN_EMBOSSING">>,
     <<"IN_EMBOSSING", "EMBOSSING_COMPLETE">>,
     <<"EMBOSSING_COMPLETE", "DISPATCHED">>,
     <<"DISPATCHED", "IN_TRANSIT">>,
     <<"IN_TRANSIT", "OUT_FOR_DELIVERY">>,
     <<"OUT_FOR_DELIVERY", "DELIVERED">>,
     <<"IN_EMBOSSING", "EMBOSSING_FAILED">>,
     <<"EMBOSSING_FAILED", "QUEUED_FOR_EMBOSSING">>,
     <<"OUT_FOR_DELIVERY", "DELIVERY_FAILED">>,
     <<"DELIVERY_FAILED", "OUT_FOR_DELIVERY">>,
     <<"DELIVERY_FAILED", "RETURNED">>,
     <<"RETURNED", "DESTROYED">>}

\* C1: in every reachable state, each stored journey's currentStatus is the
\* stage of the last event of its journey array.
C1_CurrentStatusIsLastStage ==
  \A c \in Stored : store[c].currentStatus = LastEvent(store[c]).stage

\* two updates that read the same last event have both been written, the
\* later one with another stage than the earlier one
C1_Witness ==
  \E c \in Stored :
    /\ Len(store[c].journey) = 3
    /\ store[c].journey[2].readIdx = 1
    /\ store[c].journey[3].readIdx = 1
    /\ store[c].journey[2].stage # store[c].journey[3].stage

\* C2: when two updateCardStatus calls with distinct target stages run
\* concurrently on the same card from the same current stage, exactly one
\* transition is applied: the journey grows by exactly one event.
C2_ExactlyOneWinner ==
  \A p, q \in Procs :
    ( /\ p # q
      /\ PastWrite(p) /\ PastWrite(q)
      /\ req[p].cardId = req[q].cardId
      /\ req[p].readIdx = req[q].readIdx
      /\ req[p].status # req[q].status )
    => Len(store[req[p].cardId].journey) = req[p].readIdx + 1

\* C3: no two appended events have their duration computed against the same
\* previous event.
C3_DistinctPreviousEvent ==
  \A c \in Stored :
    \A i, j \in 2..Len(store[c].journey) :
      i # j => store[c].journey[i].readIdx # store[c].journey[j].readIdx

\* C4: an update whose target is not reachable from the current stage in the
\* transition table has no side effect: no request writes (or notifies)
\* such a transition.
C4_InvalidTransitionNoEffect ==
  \A p \in Procs :
    (req[p].kind \in UpdateKinds /\ (req[p].wrote \/ req[p].notified) /\ req[p].pc # "done")
    => ValidTransition(req[p].previousStatus, req[p].status)

\* C5: once a journey's currentStatus is DELIVERED or DESTROYED, no step
\* changes its currentStatus or appends an event.
C5_TerminalAbsorbing ==
  [][\A c \in Stored :
       store[c].currentStatus \in TerminalStages
       => /\ store'[c].currentStatus = store[c].currentStatus
          /\ store'[c].journey = store[c].journey]_vars

C7_DurationOnPrecedingEvent ==
  \A c \in Stored :
    \A i \in 1..Len(store[c].journey) :
      IF i < Len(store[c].journey)
        THEN store[c].journey[i].durationMinutes =
               RoundMinutes(store[c].journey[i + 1].timestamp
                            - store[c].journey[i].timestamp)
        ELSE store[c].journey[i].durationMinutes = NoDuration

\* C8: a journey's retryCount equals the number of failure-stage events in
\* its journey array.
C8_RetryCountIsFailureEvents ==
  \A c \in Stored :
    store[c].retryCount =
      Cardinality({i \in 1..Len(store[c].journey) :
                     store[c].journey[i].stage \in FailureStages})

\* C9: actualDelivery is unset while the journey has no DELIVERED event, is
\* set once it has one, and once set is never changed by a later step.
C9_ActualDeliverySetOnce ==
  [][\A c \in Stored :
       /\ (store[c].actualDelivery # NoTime)
            <=> (\E i \in 1..Len(store[c].journey) :
                   store[c].journey[i].stage = "DELIVERED")
       /\ store[c].actualDelivery # NoTime
            => store'[c].actualDelivery = store[c].actualDelivery]_vars

\* the event appended by a retry of a failed card
RetrySuccess(doc, e) ==
  /\ doc.currentStatus \in FailureStages
  /\ e.stage = RetryStatus(doc.currentStatus)

\* C10: every update to a failure stage sets the journey's failureReason;
\* the failureReason changes only when a failure-stage update sets it on a
\* journey that has none, or when a retry-success transition clears it.
C10_FailureReasonDiscipline ==
  [][\A c \in Stored :
       store'[c] # store[c]
       => LET e == LastEvent(store'[c])
          IN /\ e.stage \in FailureStages => store'[c].failureReason # NoValue
             /\ store'[c].failureReason # store[c].failureReason
                  => \/ /\ e.stage \in FailureStages
                        /\ store[c].failureReason = NoValue
                     \/ /\ store'[c].failureReason = NoValue
                        /\ RetrySuccess(store[c], e)]_vars

\* a createCard call that carried all required fields and has ended
CreateEnded(p) ==
  /\ req[p].kind = "create"
  /\ req[p].pc = "done"
  /\ req[p].result # "MissingFields"

\* C11: a createCard whose cardId already exists in the store fails with the
\* duplicate-key error ('Card ID already exists'), having stored and
\* broadcast nothing.
C11_DuplicateCardIdRejected ==
  \A p \in Procs :
    (CreateEnded(p) /\ req[p].cardId \in StoredCardIds)
    => /\ req[p].result = "DuplicateKey"
       /\ ~req[p].wrote /\ ~req[p].notified

\* C12: a createCard with a new cardId and all required fields succeeds and
\* stores a journey with exactly one event, whose stage is a member of the
\* stage enumeration, whose previousStage is null, and whose stage is the
\* journey's currentStatus.
C12_CreateStoresInitialEvent ==
  \A p \in Procs :
    (CreateEnded(p) /\ req[p].cardId \notin StoredCardIds)
    => /\ req[p].result = "OK"
       /\ store[req[p].cardId] # NoDoc
       /\ store[req[p].cardId].journey[1].stage \in StageEnum
       /\ store[req[p].cardId].journey[1].previousStage = NoValue

\* event e as it would read after a back-fill of its duration
SameButDuration(e, f) ==
  [e EXCEPT !.durationMinutes = NoDuration] = [f EXCEPT !.durationMinutes = NoDuration]

\* C13: every step leaves each stored journey stored, keeps its events as a
\* prefix of the new journey array in the same order (the event that was
\* last may differ in its durationMinutes only) and leaves cardId,
\* customerId, priority and estimatedDelivery unchanged.
C13_EventsAppendOnly ==
  [][\A c \in Stored :
       /\ store'[c] # NoDoc
       /\ Len(store'[c].journey) >= Len(store[c].journey)
       /\ \A i \in 1..Len(store[c].journey) :
            IF i < Len(store[c].journey)
              THEN store'[c].journey[i] = store[c].journey[i]
              ELSE SameButDuration(store'[c].journey[i], store[c].journey[i])
       /\ store'[c].cardId = store[c].cardId
       /\ store'[c].customerId = store[c].customerId
       /\ store'[c].priority = store[c].priority
       /\ store'[c].estimatedDelivery = store[c].estimatedDelivery]_vars

\* two updates, the second having read the event of the first, have been
\* appended behind the first event of the journey
C13_Witness ==
  \E c \in Stored :
    /\ Len(store[c].journey) = 3
    /\ store[c].journey[1].stage = SchemaDefaultStatus
    /\ store[c].journey[2].readIdx = 1
    /\ store[c].journey[3].readIdx = 2
    /\ store[c].cardId = c

\* the status_updated notifications broadcast so far for card c
StatusUpdatedCount(c) ==
  Cardinality({i \in 1..Len(broadcasts) :
                 broadcasts[i].type = "status_updated" /\ broadcasts[i].cardId = c})

\* the updates of card c that have written and not yet broadcast
CommittedUnnotified(c) ==
  Cardinality({p \in Procs : /\ req[p].kind \in UpdateKinds
                             /\ req[p].pc = "notify"
                             /\ req[p].cardId = c})

\* C14: a status_updated notification is broadcast only by a call whose
\* store write has committed, one per committed write, and an
\* updateCardStatus call that has ended has broadcast exactly when it
\* succeeded: a failed call has broadcast nothing.
C14_BroadcastAfterCommit ==
  /\ \A p \in Procs :
       req[p].kind \in UpdateKinds
       => /\ req[p].notified => req[p].wrote
          /\ req[p].pc = "done" => (req[p].notified <=> req[p].result = "OK")
  /\ \A c \in Stored :
       StatusUpdatedCount(c) + CommittedUnnotified(c) = Len(store[c].journey) - 1

\* C15: a write that conflicts with a concurrent update of the same card
\* (another event was appended between the call's read and its write) is
\* not applied on the stale read: the call retries or ends with the
\* write-conflict error, so every write that is applied finds the journey
\* as the call read it.
C15_WriteConflictDetected ==
  [][\A p \in Procs :
       (req[p].kind \in UpdateKinds /\ req[p].pc = "write" /\ req'[p].pc = "notify")
       => Len(store[req[p].cardId].journey) = req[p].readIdx]_vars

\* the card ids of the answer of the last getDelayedCards
DelayedCards == {delayed.cards[i] : i \in 1..Len(delayed.cards)}

\* the answer lists no card twice, oldest first
DelayedOldestFirst ==
  \A i, j \in 1..Len(delayed.cards) :
    i < j => /\ delayed.cards[i] # delayed.cards[j]
             /\ store[delayed.cards[i]].createdAt <= store[delayed.cards[j]].createdAt

\* C16 as stated: getDelayedCards(threshold) returns exactly the stored
\* journeys whose stage is not terminal (DELIVERED, DESTROYED) and whose
\* creation time is older than now minus the threshold, oldest first.
C16_DelayedAreNonTerminal ==
  delayed # NoAnswer
  => /\ \A c \in CardIds :
          c \in DelayedCards
          <=> /\ c \in Stored
              /\ store[c].currentStatus \notin TerminalStages
              /\ store[c].createdAt < now - delayed.thresholdHours * 120
     /\ DelayedOldestFirst

\* C16, amended: getDelayedCards(threshold) returns exactly the stored
\* journeys whose stage is none of DELIVERED, DESTROYED and RETURNED and
\* whose creation time is older than now minus the threshold, oldest first.
C16_DelayedAreUndelivered ==
  delayed # NoAnswer
  => /\ \A c \in CardIds :
          c \in DelayedCards
          <=> /\ c \in Stored
              /\ store[c].currentStatus \notin {"DELIVERED", "DESTROYED", "RETURNED"}
              /\ store[c].createdAt < now - delayed.thresholdHours * 120
     /\ DelayedOldestFirst

\* the query has answered two journeys of different age, the older first
C16_Witness ==
  /\ delayed # NoAnswer
  /\ Len(delayed.cards) = 2
  /\ store[delayed.cards[1]].createdAt < store[delayed.cards[2]].createdAt

\* the run holds the answer of its aggregation
HasResults(a) == runs[a].pc \in {"today", "query", "apply", "complete"}

\* C17: the collection never holds two summaries of the same stage and
\* analysis day, and a run that has made its last upsert finds exactly one
\* summary for each stage it analysed on its day, also when runs overlap.
C17_OneSummaryPerStageDay ==
  /\ \A i, j \in 1..Len(summaries) :
       i # j => ~ /\ summaries[i].stage = summaries[j].stage
                  /\ summaries[i].analysisDate = summaries[j].analysisDate
  /\ \A a \in AnalysisProcs :
       runs[a].pc = "complete"
       => \A k \in 1..Len(runs[a].results) :
            Cardinality(Matching(summaries, runs[a].results[k].stage,
                                 runs[a].today)) = 1

\* two overlapping runs of the same day have both made their upserts
C17_Witness ==
  \E a, b \in AnalysisProcs :
    /\ a # b
    /\ runs[a].pc = "complete" /\ runs[b].pc = "complete"
    /\ runs[a].today = runs[b].today
    /\ Len(runs[a].results) >= 1 /\ Len(runs[b].results) >= 1
    /\ Len(summaries) >= 1

\* C18: the upsert of a run for a stage leaves the summary of that stage
\* and day with exactly the values the run computed, whatever it held
\* before, and leaves the other summaries alone; when the summary already
\* held these values the collection is unchanged.
C18_SummaryIsSnapshot ==
  [][\A a \in AnalysisProcs :
       (runs[a].pc = "apply" /\ runs'[a].pc \in {"query", "complete"})
       => LET sa == runs[a].results[runs[a].idx]
              before == Matching(summaries, sa.stage, runs[a].today)
              after == Matching(summaries', sa.stage, runs[a].today)
          IN /\ after # {}
             /\ \A i \in after : summaries'[i].fields = SummaryFields(sa)
             /\ \A i \in 1..Len(summaries) :
                  i \notin after => summaries'[i] = summaries[i]
             /\ (\E i \in before : summaries[i].fields = SummaryFields(sa))
                  => summaries' = summaries]_vars

\* two runs of the same day have computed different values for a stage and
\* have both made their upserts: the summary holds the values of one
C18_Witness ==
  \E a, b \in AnalysisProcs :
    /\ runs[a].pc = "complete" /\ runs[b].pc = "complete"
    /\ runs[a].today = runs[b].today
    /\ \E i \in 1..Len(runs[a].results), j \in 1..Len(runs[b].results) :
         /\ runs[a].results[i].stage = runs[b].results[j].stage
         /\ SummaryFields(runs[a].results[i]) # SummaryFields(runs[b].results[j])
         /\ \E k \in Matching(summaries, runs[a].results[i].stage, runs[a].today) :
              summaries[k].fields = SummaryFields(runs[a].results[i])

\* the stored events, each named by its card and its place in the journey
StoredEvents ==
  UNION {{<<c, i>> : i \in 1..Len(store[c].journey)} :
           c \in {d \in CardIds : store[d] # NoDoc}}

\* the events that the aggregation of a run with window start t works on
SampleEvents(t) ==
  {ce \in StoredEvents :
     /\ store[ce[1]].createdAt >= t
     /\ store[ce[1]].journey[ce[2]].durationMinutes > 0}

\* the per-stage results of a run, with the recommendations
ResultSet(a) ==
  {[analysis |-> runs[a].results[i],
    recommendations |-> GenerateRecommendations(runs[a].results[i])] :
     i \in 1..Len(runs[a].results)}

\* C19: two runs that aggregate the same set of journey events compute the
\* same per-stage results (count, mean, minimum, maximum, delayed count,
\* delay percentage, severity, recommendations), whatever the time of the
\* run and the order in which the store scans the journeys.
C19_SameEventsSameResults ==
  \A a, b \in AnalysisProcs :
    ( /\ HasResults(a) /\ HasResults(b)
      /\ SampleEvents(runs[a].sevenDaysAgo) = SampleEvents(runs[b].sevenDaysAgo) )
    => ResultSet(a) = ResultSet(b)

\* two runs started at different times hold results for the same events
C19_Witness ==
  \E a, b \in AnalysisProcs :
    /\ HasResults(a) /\ HasResults(b)
    /\ runs[a].sevenDaysAgo # runs[b].sevenDaysAgo
    /\ SampleEvents(runs[a].sevenDaysAgo) = SampleEvents(runs[b].sevenDaysAgo)
    /\ Len(runs[a].results) = 2
    /\ ResultSet(a) = ResultSet(b)

\* the events of a stage with a recorded duration whose own timestamp lies
\* in the window that starts at t
WindowedEvents(stage, t) ==
  {ce \in StoredEvents :
     /\ store[ce[1]].journey[ce[2]].stage = stage
     /\ store[ce[1]].journey[ce[2]].durationMinutes # NoDuration
     /\ store[ce[1]].journey[ce[2]].timestamp >= t}

\* C20: the sample of a stage is exactly the events of that stage with a
\* recorded durationMinutes whose own timestamp lies in the trailing 7-day
\* window, whenever the card was created: a stage in the results counts
\* these events, a stage with fewer than 5 of them has no result, and a
\* stage with 5 or more of them, all longer than the minimum mean, has one.
C20_SampleIsWindowedEvents ==
  \A a \in AnalysisProcs :
    HasResults(a)
    => \A stage \in StageEnum :
         LET sample == WindowedEvents(stage, runs[a].sevenDaysAgo)
             found == {k \in 1..Len(runs[a].results) : runs[a].results[k].stage = stage}
         IN /\ \A k \in found : runs[a].results[k].count = Cardinality(sample)
            /\ Cardinality(sample) < MinSampleSize => found = {}
            /\ ( /\ Cardinality(sample) >= MinSampleSize
                 /\ \A ce \in sample :
                      store[ce[1]].journey[ce[2]].durationMinutes > MinAvgMinutes )
               => found # {}

\* a group has gone through the $project stages
Projected == calc.pc \in {"projected", "recommended"}

\* the durations of the group above 480 minutes
LongDurations == {i \in 1..Len(calc.durations) : calc.durations[i] > 480}

\* C21: for an analysed stage delayedCount is the number of sample
\* durations strictly above 480 minutes, the delay percentage is
\* delayedCount / count to the nearest tenth of a percent, and severity is
\* critical above a ratio of 0.30, else high above 0.20, else medium above
\* 0.10, else low; 4 of 10 is critical and the exact ratios 0.30, 0.20 and
\* 0.10 fall in the lower class.
C21_SeverityByDelayRatio ==
  Projected
  => LET n == Len(calc.durations)
         d == Cardinality(LongDurations)
         sa == calc.analysis
     IN /\ sa.count = n
        /\ sa.delayedCount = d
        /\ 2 * (sa.delayPercentage * n - 1000 * d) <= n
        /\ 2 * (1000 * d - sa.delayPercentage * n) <= n
        /\ (sa.severity = "critical") = (100 * d > 30 * n)
        /\ (sa.severity = "high") = (100 * d > 20 * n /\ 100 * d <= 30 * n)
        /\ (sa.severity = "medium") = (100 * d > 10 * n /\ 100 * d <= 20 * n)
        /\ (sa.severity = "low") = (100 * d <= 10 * n)
        /\ (n = 10 /\ d = 4) => sa.severity = "critical"

\* a group of 10 with exactly 3 long durations, one of them not long by a
\* minute, has been classified high
C21_Witness ==
  /\ Projected
  /\ Len(calc.durations) = 10
  /\ Cardinality(LongDurations) = 3
  /\ \E i \in 1..Len(calc.durations) : calc.durations[i] = 480
  /\ calc.analysis.severity = "high"

\* C22: a stage is left out of the analysis result exactly when its mean
\* duration is below 30 minutes; a mean of exactly 30 and a mean that
\* rounds down to 30 are retained.
C22_RetainedFromThirtyMinutes ==
  Projected
  => (calc.retained = (SumSeq(calc.durations) >= 30 * Len(calc.durations)))

\* the messages by their tier
SeverityTier(sa) ==
  IF sa.severity = "critical"
    THEN <<"critical_intervention", "critical_capacity", "critical_monitoring">>
  ELSE IF sa.severity = "high"
    THEN <<"high_attention", "high_workflow", "high_planning">>
  ELSE <<>>

DelayRatioTier(sa) ==
  IF sa.delayPercentage > 500 THEN <<"process_redesign", "automation">>
  ELSE IF sa.delayPercentage > 250 THEN <<"procedures", "optimization">>
  ELSE <<>>

DurationTier(sa) ==
  IF sa.avgDuration > 1440 THEN <<"exceeds_24_hours">>
  ELSE IF sa.avgDuration > 480 THEN <<"exceeds_8_hours">>
  ELSE IF sa.avgDuration > 240 THEN <<"moderate_delays">>
  ELSE <<>>

VolumeTier(sa) == IF sa.count > 1000 THEN <<"high_volume">> ELSE <<>>

AllTiers(sa) ==
  SeverityTier(sa) \o DelayRatioTier(sa) \o DurationTier(sa)
  \o StageSpecificRecommendations(sa) \o VolumeTier(sa)

\* C23: generateRecommendations returns at most 6 recommendations: the
\* first 6, or all when there are fewer, of the severity messages, the
\* delay-ratio messages, the duration message, the stage-specific messages
\* and the high-volume message, in this order.
C23_FirstSixRecommendations ==
  calc.pc = "recommended"
  => LET all == AllTiers(calc.analysis)
         recs == calc.recommendations
     IN /\ Len(recs) <= 6
        /\ Len(recs) = (IF Len(all) < 6 THEN Len(all) ELSE 6)
        /\ \A i \in 1..Len(recs) : recs[i] = all[i]

\* a high-volume stage with more than 6 messages: the volume message, the
\* last of them, is cut off
C23_Witness ==
  /\ calc.pc = "recommended"
  /\ calc.analysis.count > 1000
  /\ Len(AllTiers(calc.analysis)) > 6
  /\ Len(calc.recommendations) = 6
  /\ \A i \in 1..6 : calc.recommendations[i] # "high_volume"

\* C24: every summary written by an analysis run carries an impactScore,
\* equal to min(delay percentage, 40) plus the weight of the affected count
\* (10 above 10, 20 above 50, 30 above 100) plus the weight of the severity
\* (low 5, medium 15, high 25, critical 30), at most 100; the score is
\* counted in tenths of a point.
C24_ImpactScoreStored ==
  \A i \in 1..Len(summaries) :
    /\ summaries[i].impactScore # NoScore
    /\ summaries[i].impactScore = CalculateImpactScore(summaries[i].fields)

\* the run makes the step
Steps(a) == runs'[a] # runs[a]

\* the run ends with an error in the step
Aborts(a) ==
  /\ Steps(a)
  /\ runs'[a].pc = "done"
  /\ runs'[a].outcome # "OK"

\* C25: a run broadcasts bottleneck_analysis_complete only when all its
\* upserts have answered, with stagesAnalyzed the number of summaries it
\* wrote, each of them stored, and criticalStages the number of them that
\* are critical; a run that ends with an error broadcasts nothing and
\* writes nothing in that step, and every step leaves each summary as it
\* was or with all the values of one run's stage.
C25_CompletionAfterUpserts ==
  [][/\ \A a \in AnalysisProcs :
          (Steps(a) /\ broadcasts' # broadcasts)
          => LET r == runs[a]
                 today == IF r.pc = "today" THEN Midnight(now') ELSE r.today
                 msg == broadcasts'[Len(broadcasts')]
             IN /\ broadcasts' = Append(broadcasts, msg)
                /\ msg.type = "bottleneck_analysis_complete"
                /\ r.pc = "complete" \/ (r.pc = "today" /\ r.results = <<>>)
                /\ msg.stagesAnalyzed = r.idx
                /\ msg.stagesAnalyzed = Len(r.results)
                /\ \A k \in 1..Len(r.results) :
                     Matching(summaries, r.results[k].stage, today) # {}
                /\ msg.criticalStages =
                     Cardinality({k \in 1..Len(r.results) :
                                    r.results[k].severity = "critical"})
                /\ runs'[a].outcome = "OK"
     /\ \A a \in AnalysisProcs :
          Aborts(a) => broadcasts' = broadcasts /\ summaries' = summaries
     /\ \A i \in 1..Len(summaries') :
          \/ i <= Len(summaries) /\ summaries'[i] = summaries[i]
          \/ \E a \in AnalysisProcs :
               /\ runs[a].pc = "apply"
               /\ summaries'[i].stage = runs[a].results[runs[a].idx].stage
               /\ summaries'[i].analysisDate = runs[a].today
               /\ summaries'[i].fields = SummaryFields(runs[a].results[runs[a].idx])]_vars

\* one run has broadcast the completion of two stages, one of them
\* critical, and the other run has ended part-way with an error
C25_Witness ==
  /\ Len(broadcasts) = 1
  /\ broadcasts[1].type = "bottleneck_analysis_complete"
  /\ broadcasts[1].stagesAnalyzed = 2
  /\ broadcasts[1].criticalStages >= 1
  /\ \E b \in AnalysisProcs : runs[b].outcome = "DuplicateKey"
  /\ Len(summaries) = 2

\* the summaries of the last 7 days
CurrentSummaries ==
  {i \in 1..Len(summaries) : summaries[i].analysisDate >= SevenDaysAgo(now)}

\* summary a comes before summary b in the order severity rank descending,
\* then delay ratio descending
Outranks(a, b) ==
  \/ SeverityRank(a.fields.severity) > SeverityRank(b.fields.severity)
  \/ /\ a.fields.severity = b.fields.severity
     /\ a.fields.delayPercentage > b.fields.delayPercentage

\* C26: the summaries that getCurrentBottlenecks(N) returns for the
\* insights are N (or all, when there are fewer) of the current summaries,
\* given in the order severity rank descending (critical, high, medium,
\* low), then delay ratio descending, and no current summary that was left
\* out outranks a returned one.
C26_TopBySeverityRank ==
  insights.pc # "idle"
  => LET got == insights.bottlenecks
         returned == {got[k] : k \in 1..Len(got)}
         left == {summaries[i] : i \in CurrentSummaries} \ returned
     IN /\ Len(got) = (IF Cardinality(CurrentSummaries) < 3
                         THEN Cardinality(CurrentSummaries) ELSE 3)
        /\ returned \subseteq {summaries[i] : i \in CurrentSummaries}
        /\ \A j, k \in 1..Len(got) : j < k => ~Outranks(got[k], got[j])
        /\ \A x \in left, y \in returned : ~Outranks(x, y)

\* C27: the list that generateInsights returns is sorted by severity rank:
\* critical before high before medium before low, whatever bottleneck,
\* regional and volume insights it holds.
C27_InsightsSortedBySeverity ==
  insights.pc = "done"
  => \A i, j \in 1..Len(insights.list) :
       i < j => SeverityRank(insights.list[i].severity)
                  >= SeverityRank(insights.list[j].severity)

\* the returned list holds bottleneck insights of both severities, which
\* the query gave high first, a regional and a low volume insight
C27_Witness ==
  /\ insights.pc = "done"
  /\ Len(insights.list) >= 4
  /\ \E k \in 1..Len(insights.bottlenecks) :
       /\ k < Len(insights.bottlenecks)
       /\ insights.bottlenecks[k].fields.severity = "high"
       /\ insights.bottlenecks[k + 1].fields.severity = "critical"
  /\ insights.list[1].severity = "critical"
  /\ \E i \in 1..Len(insights.list) : insights.list[i].type = "regional"
  /\ \E i \in 1..Len(insights.list) :
       insights.list[i].type = "volume" /\ insights.list[i].severity = "low"

\* the counts of the journeys created today and yesterday
TodayVolume == Cardinality(CreatedBetween(Midnight(now), now + 1))
YesterdayVolume == Cardinality(CreatedBetween(YesterdayMidnight(now), Midnight(now)))

\* the success rate of some region of the last 7 days is below 90%
SomeRegionBelowTarget ==
  \E c \in CreatedBetween(SevenDaysAgo(now), now + 1) :
    LET members == {m \in CreatedBetween(SevenDaysAgo(now), now + 1) :
                      RegionOf(store[m]) = RegionOf(store[c])}
        delivered == {m \in members : store[m].currentStatus = "DELIVERED"}
    IN 100 * Cardinality(delivered) < 90 * Cardinality(members)

\* C28: the returned list holds a volume insight only if
\* |today - yesterday| / yesterday exceeds 20%, and never one with an
\* infinite or undefined percentage, whatever the two counts are, 0
\* included; it holds a regional insight only if the success rate of some
\* region is below 90%.
C28_InsightThresholds ==
  insights.pc = "done"
  => \A i \in 1..Len(insights.list) :
       /\ insights.list[i].type = "volume"
          => /\ insights.list[i].finite
             /\ YesterdayVolume > 0
             /\ 100 * Abs(TodayVolume - YesterdayVolume) > 20 * YesterdayVolume
       /\ insights.list[i].type = "regional" => SomeRegionBelowTarget

\* C30: a broadcast hands the message exactly once to the send of every
\* handle of the set that is OPEN; afterwards the set holds no handle that
\* was not OPEN at the broadcast and none whose send threw, and it holds
\* every OPEN handle that got the message; handles outside the set get
\* nothing.
C30_BroadcastPrunesSubscribers ==
  [][calls' # calls
     => \A h \in Handles :
          /\ (h \in connectedClients /\ readyState[h] = "OPEN")
             => \/ /\ received'[h] = Append(received[h], calls')
                   /\ h \in connectedClients'
                \/ received'[h] = received[h] /\ h \notin connectedClients'
          /\ (h \in connectedClients /\ readyState[h] # "OPEN")
             => received'[h] = received[h] /\ h \notin connectedClients'
          /\ h \notin connectedClients
             => received'[h] = received[h] /\ h \notin connectedClients']_vars

\* C29: a step of an analysis run or of generateInsights leaves every
\* journey unchanged, a step of generateInsights also leaves every summary
\* unchanged, and a step of a journey handler (createCard,
\* updateCardStatus) leaves every summary unchanged: the store changes only
\* in steps of the journey handlers and the summaries only in steps of the
\* analysis runs.
C29_JourneysAndSummariesApart ==
  [][/\ runs' # runs => store' = store
     /\ insights' # insights => store' = store /\ summaries' = summaries
     /\ req' # req => summaries' = summaries
     /\ store' # store => req' # req
     /\ summaries' # summaries => runs' # runs]_vars

\* a journey has got a new event, a summary is stored and generateInsights
\* has returned
C29_Witness ==
  /\ \E c \in CardIds : store[c] # NoDoc /\ Len(store[c].journey) > 11
  /\ Len(summaries) >= 1
  /\ insights.pc = "done"
  /\ \E a \in AnalysisProcs : runs[a].outcome = "OK"

\* C31: right after a cleanup every handle left in the set is OPEN, and a
\* handle of the set that is no longer OPEN is eventually out of the set
\* when the cleanup keeps being run.
C31_SweepLeavesOpenHandles ==
  /\ [][Cleanup => \A h \in connectedClients' : readyState'[h] = "OPEN"]_vars
  /\ \A h \in Handles :
       (h \in connectedClients /\ readyState[h] # "OPEN")
         ~> (h \notin connectedClients)

\* the set holds the OPEN handles only while a handle that left OPEN
\* without a 'close' event and without a broadcast is outside of it
C31_Witness ==
  /\ calls = 0
  /\ \E h \in Handles : h \notin connectedClients /\ readyState[h] = "CLOSING"
  /\ \E h \in connectedClients : readyState[h] = "OPEN"
  /\ \A h \in connectedClients : readyState[h] = "OPEN"

\* C32: the broadcast messages handed to a handle are in the order of the
\* broadcast calls, each at most once: the numbers of the calls in received
\* strictly increase and none is of a call that has not been made.
C32_DeliveryInCallOrder ==
  \A h \in Handles :
    /\ \A i \in 1..Len(received[h]) : received[h][i] <= calls
    /\ \A i \in 1..Len(received[h]), j \in 1..Len(received[h]) :
         i < j => received[h][i] < received[h][j]

\* a handle has got the first and the second broadcast, in that order
C32_Witness ==
  \E h \in Handles :
    /\ Len(received[h]) = 3
    /\ received[h][2] = 1
    /\ received[h][3] = 2

\* C40: a handle of the set has been connected and its first message is
\* connection_established; a handle whose 'close' or 'error' event has been
\* handled is out of the set; a handle outside the set gets no message
\* unless it connects anew.
C40_MembershipFollowsLifecycle ==
  /\ [](\A h \in Handles :
         /\ h \in connectedClients
            => /\ received[h] # <<>>
               /\ received[h][1] = ConnectionEstablished
               /\ readyState[h] # "CLOSED"
         /\ readyState[h] = "CLOSED" => h \notin connectedClients)
  /\ [][\A h \in Handles :
         /\ OnError(h) => h \notin connectedClients'
         /\ (h \notin connectedClients /\ received'[h] # received[h])
            => /\ h \in connectedClients'
               /\ received'[h] = <<ConnectionEstablished>>]_vars

\* a handle was welcomed, got the first broadcast, was closed, and the
\* second broadcast went by without it
C40_Witness ==
  /\ calls = 2
  /\ \E h \in Handles :
       /\ readyState[h] = "CLOSED"
       /\ h \notin connectedClients
       /\ received[h] = <<ConnectionEstablished, 1>>

\* C35: the first event of a journey has no previousStage and every later
\* event has as previousStage the stage of the event right before it.
C35_PreviousStageChain ==
  \A c \in Stored :
    /\ store[c].journey[1].previousStage = NoValue
    /\ \A i \in 2..Len(store[c].journey) :
         store[c].journey[i].previousStage = store[c].journey[i - 1].stage

\* C36: the pair (previousStatus, newStatus) of every status_updated
\* message is the pair of stages of two consecutive events of the stored
\* journey of its card.
C36_NotificationIsStoredTransition ==
  \A k \in 1..Len(broadcasts) :
    broadcasts[k].type = "status_updated"
    => \E i \in 1..(Len(store[broadcasts[k].cardId].journey) - 1) :
         /\ store[broadcasts[k].cardId].journey[i].stage
              = broadcasts[k].previousStatus
         /\ store[broadcasts[k].cardId].journey[i + 1].stage
              = broadcasts[k].newStatus

\* C37: the store write of a retry finds the card in a failed stage and
\* appends the retry stage of that stage; a retry of a card that is in no
\* failed stage when the route reads it writes nothing.
C37_RetryWritesFromFailedStage ==
  [][\A p \in Procs :
       /\ (req[p].kind = "retry" /\ req[p].pc = "write" /\ req'[p].pc = "notify")
          => /\ store[req[p].cardId].currentStatus \in FailureStages
             /\ req[p].status = RetryStatus(store[req[p].cardId].currentStatus)
       /\ (req'[p].kind = "retry" /\ req'[p].result = "NotFailed")
          => ~req'[p].wrote /\ (req[p] # req'[p] => store' = store)]_vars

C34_ApiKeyRequired ==
  /\ [](\A p \in Procs :
         req[p].kind \in UpdateKinds
         => IF req[p].apiKey = ValidApiKey
              THEN req[p].result # "Unauthorized"
              ELSE /\ req[p].pc = "done"
                   /\ req[p].result = "Unauthorized"
                   /\ ~req[p].wrote
                   /\ ~req[p].notified
                   /\ ~req[p].triggered)
  /\ [][\A p \in Procs :
         (req'[p] # req[p] /\ req'[p].result = "Unauthorized")
         => /\ store' = store
            /\ broadcasts' = broadcasts
            /\ analysisTriggers' = analysisTriggers]_vars

\* a request without a key and one with another key were answered 401
\* and changed nothing, on either route
C34_Witness ==
  /\ calls = 2
  /\ req["p1"].kind = "update" /\ req["p1"].apiKey = NoValue
  /\ req["p1"].result = "Unauthorized"
  /\ req["p2"].kind = "retry" /\ req["p2"].apiKey = "another-key"
  /\ req["p2"].result = "Unauthorized"
  /\ \A c \in Stored : store[c].currentStatus = "EMBOSSING_FAILED"
  /\ broadcasts = <<>>

\* the cards of the collection one of whose cardId, customerId and
\* customerName contains the query, whatever the case of the letters
ContainsQuery(query, cards) ==
  {card \in cards : \/ RegExpI(query, card.cardId)
                    \/ RegExpI(query, card.customerId)
                    \/ RegExpI(query, card.customerName)}

\* C33: searchCards with a query of at least 3 characters returns the
\* journeys whose cardId, customerId or customerName contains the query as
\* a case-insensitive substring; with a shorter query it fails validation
\* and the store is not queried.
C33_SearchBySubstring ==
  search.pc = "done"
  => IF Len(search.query) >= MinQueryLength
       THEN /\ search.error = NoValue
            /\ {search.found[i] : i \in 1..Len(search.found)}
                 = ContainsQuery(search.query, search.cards)
       ELSE /\ search.error = "QueryTooShort"
            /\ ~search.queried

\* C39: the client has made at most maxReconnectAttempts reconnects since
\* its socket was last open (or since it was mounted); an open resets the
\* counter; a close with code 1000 schedules no reconnect.
C39_ReconnectBounded ==
  /\ [](client.reconnectAttempts <= maxReconnectAttempts)
  /\ [][/\ (client.socket # "OPEN" /\ client'.socket = "OPEN")
           => client'.reconnectAttempts = 0
        /\ (client.socket # "CLOSED" /\ client'.socket = "CLOSED"
            /\ client'.code = ManualCloseCode)
           => client'.timer = client.timer]_vars

====
